---- MODULE Spec2Model ----
(***************************************************************************)
(* Model of lean_scout's buffered shard store (ShardedParquetWriter) and   *)
(* of the process supervisor that feeds it (Orchestrator, cli.main).       *)
(*                                                                         *)
(* Python dicts are modelled as association sequences <<key, value>> in    *)
(* insertion order, because the code iterates them (list(buffers.keys()),  *)
(* writers.values(), counts.values()).                                     *)
(***************************************************************************)
EXTENDS Integers, Sequences, FiniteSets, TLC

\* ------------------------------------------------------------------ bounds
MaxShards == 2
MaxBatch == 2
MaxThreads == 2
MaxOps == 2
MaxCalls == 4
MaxFiles == 2
MaxLines == 1
MaxSigints == 1
MaxStream == 3

\* ------------------------------------------------------------ python dict
DictKeys(d) == [i \in 1..Len(d) |-> d[i][1]]

DictKeySet(d) == {d[i][1] : i \in 1..Len(d)}

DictHas(d, k) == k \in DictKeySet(d)

DictIndex(d, k) == CHOOSE i \in 1..Len(d) : d[i][1] = k

DictGet(d, k) == d[DictIndex(d, k)][2]

DictSet(d, k, v) ==
    IF DictHas(d, k) THEN [d EXCEPT ![DictIndex(d, k)] = <<k, v>>]
    ELSE Append(d, <<k, v>>)

RECURSIVE SumSeq(_)
SumSeq(s) == IF s = <<>> THEN 0 ELSE Head(s) + SumSeq(Tail(s))

DictValues(d) == [i \in 1..Len(d) |-> d[i][2]]

\* ------------------------------------------------------------ shard router
\* The shard-key field of a record: a string, None (null), a map (a dict
\* whose items are kept in insertion order), or no field at all.
StrKey(s) == [tag |-> "str", val |-> s, items |-> <<>>]

NoneKey == [tag |-> "none", val |-> "", items |-> <<>>]

MapKey(items) == [tag |-> "map", val |-> "", items |-> items]

Absent == [tag |-> "absent", val |-> "", items |-> <<>>]

\* the same dict built in two insertion orders
MapAB == MapKey(<<<<"a", 0>>, <<"b", 1>>>>)

MapBA == MapKey(<<<<"b", 1>>, <<"a", 0>>>>)

KeyValues == {StrKey("foo"), StrKey("bar"), NoneKey}

\* every kind of shard-key field a record can have
RecordKeys == {StrKey("foo"), NoneKey, Absent, MapAB, MapBA}

\* the string keys the concurrent clients use (test_writer_thread_safety)
ThreadKeys == {StrKey("foo"), StrKey("bar")}

\* mutant: a record without the field is hashed under a default string
record_get_default(r) == IF r.key.tag = "absent" THEN StrKey("absent") ELSE r.key

\* record.get(self.shard_key): None when the field is missing
record_get(r) == IF r.key.tag = "absent" THEN NoneKey ELSE r.key

\* code points of the dict keys, the order sort_keys=True sorts by
ord(c) ==
    CASE c = "a" -> 97
      [] c = "b" -> 98

RECURSIVE insert_sorted(_, _)
insert_sorted(p, s) ==
    IF s = <<>> THEN <<p>>
    ELSE IF ord(p[1]) <= ord(Head(s)[1]) THEN <<p>> \o s
    ELSE <<Head(s)>> \o insert_sorted(p, Tail(s))

RECURSIVE sort_keys(_)
sort_keys(items) ==
    IF items = <<>> THEN <<>>
    ELSE insert_sorted(Head(items), sort_keys(Tail(items)))

\* one item of a dict as json.dumps renders it: "name": value
dumps_item(p) == "\"" \o p[1] \o "\": " \o ToString(p[2])

RECURSIVE join_items(_)
join_items(items) ==
    IF items = <<>> THEN ""
    ELSE IF Tail(items) = <<>> THEN dumps_item(Head(items))
    ELSE dumps_item(Head(items)) \o ", " \o join_items(Tail(items))

\* mutant: the dict is serialized in insertion order
json_dumps_unsorted(v) ==
    IF v.tag = "none" THEN "null" ELSE "{" \o join_items(v.items) \o "}"

\* json.dumps(value, sort_keys=True) for the non-string key values.
json_dumps(v) ==
    IF v.tag = "none" THEN "null"
    ELSE "{" \o join_items(sort_keys(v.items)) \o "}"

\* hashlib.blake2b(s.encode("utf-8"), digest_size=8).digest(): the eight
\* digest bytes of the strings the model can build.
blake2b(s) ==
    CASE s = "foo"  -> <<116, 3, 174, 163, 155, 175, 82, 251>>
      [] s = "bar"  -> <<86, 2, 168, 149, 149, 117, 91, 158>>
      [] s = "null" -> <<115, 118, 178, 203, 250, 10, 210, 110>>
      [] s = "absent" -> <<87, 76, 38, 156, 174, 244, 193, 205>>
      [] s = "{\"a\": 0, \"b\": 1}" -> <<65, 142, 194, 9, 176, 244, 113, 155>>
      [] s = "{\"b\": 1, \"a\": 0}" -> <<245, 201, 212, 106, 70, 92, 90, 132>>

\* mutant: the digest is reduced by the wrong modulus
RECURSIVE from_bytes_mod_next(_, _, _)
from_bytes_mod_next(h, n, acc) ==
    IF h = <<>> THEN acc
    ELSE from_bytes_mod_next(Tail(h), n, (acc * 256 + Head(h)) % (n + 1))

\* int.from_bytes(h, "big") % n, reduced byte by byte (Horner).
RECURSIVE from_bytes_mod(_, _, _)
from_bytes_mod(h, n, acc) ==
    IF h = <<>> THEN acc
    ELSE from_bytes_mod(Tail(h), n, (acc * 256 + Head(h)) % n)

compute_shard(value, n) ==
    LET s == IF value.tag = "str" THEN value.val ELSE json_dumps(value)
    IN from_bytes_mod(blake2b(s), n, 0)

\* ---------------------------------------------------------------- threads
MainT == 0
SigT == MaxThreads + 1
PoolT == 1..MaxThreads
AllT == 0..(MaxThreads + 1)
NoThread == -1

NoRecord == [id |-> <<0, 0>>, key |-> NoneKey, valid |-> TRUE]

NoStats == [total_rows |-> -1, num_shards |-> -1]

VARIABLES
    num_shards,   \* ShardedParquetWriter.num_shards
    batch_rows,   \* ShardedParquetWriter.batch_rows
    buffers,      \* self.buffers: dict shard -> list of records
    writers,      \* self.writers: dict shard -> "open" | "closed"
    counts,       \* self.counts: dict shard -> rows written
    files,        \* out_dir: dict shard -> batches written to part-NNN.parquet
    lock,         \* self._lock: the thread holding it, or NoThread
    stats,        \* the dict returned by the latest close()
    pc,           \* per thread: position in the code
    ret,          \* per thread: where the writer call returns to
    record,       \* per thread: add_record's argument
    shard,        \* per thread: add_record's / flush_shard's shard
    todo,         \* per thread: shards left in the flush loop
    after,        \* per thread: what follows the flush loop
    table,        \* per thread: the batch built by pa.Table.from_pylist
    exc,          \* per thread: an exception is propagating
    op,           \* per thread: the writer method called last
    num_threads,  \* client threads of the store (test harness)
    quota,        \* writer calls each client thread makes before close()
    ops_done,     \* per thread: writer calls started
    routed,       \* history: records appended per shard
    explicit,     \* history: flush_shard / flush_all was called
    close_calls,  \* history: number of close() calls
    target,       \* "imports" | "single" | "multi": what run() dispatches on
    num_files,    \* len(self.read_files), 1 for an imports target
    num_workers,  \* Orchestrator.num_workers
    build_ok,     \* lake build succeeds
    script,       \* per worker: number of lines it prints
    exit_code_of, \* per worker: its exit status when it runs to the end
    imports,      \* Orchestrator(imports=...): length of the list, -1 for None
    read_files,   \* Orchestrator(read_files=...): length of the list, -1 for None
    launch_ok,    \* per worker: subprocess.Popen can start it
    bad_record,   \* per worker: its records do not fit the schema
    parallel,     \* args.parallel as requested
    cpu_count,    \* os.cpu_count(), 0 for None
    lines,        \* per worker: the shape of each line it prints
    jsonl,        \* args.jsonl
    numShards,    \* args.numShards
    schema,       \* the schema query: "ok" | "failed" | "no_key"
    listing,      \* --readList / --library resolution: "ok" | "failed"
    target_arg,   \* target options given: "none" | "imports" | "read" | "list" | "both"
    stdout,       \* lines the process has written on its own stdout
    proc,         \* per worker: "none" | "running" | "exited"
    pipe,         \* per worker: records printed and not yet read
    returncode,   \* per worker: Popen.returncode
    signalled,    \* per worker: signals sent to its process group
    processes,    \* Orchestrator._processes
    process_lock, \* Orchestrator._process_lock: holder or NoThread
    shutdown,     \* Orchestrator._shutdown
    future,       \* per file: state of its _process_file future
    task,         \* per thread: the file / process it works on
    collected,    \* futures seen by the as_completed loop
    errors,       \* _run_multiple_files: errors
    snap,         \* per thread: cleanup's snapshot "processes"
    cq,           \* per thread: rest of cleanup's current loop
    cret,         \* per thread: where cleanup returns to
    run_state,    \* history: "none" | "running" | "returned" | "raised"
    writer_created,        \* main: writer is not None
    orchestrator_created,  \* main: orchestrator is not None
    interrupted,           \* main: interrupted
    handler_installed,     \* SIGINT is bound to sigint_handler
    sigints,      \* history: SIGINTs delivered
    pending,      \* exception unwinding main: "none" | "error" | "exit1" | "exit130"
    exit_status,  \* process exit status, -1 while running
    out_dir       \* output directory: "absent" | "old" | "present" | "removed"

storeVars == <<num_shards, batch_rows, buffers, writers, counts, files, lock, stats>>
threadVars == <<pc, ret, record, shard, todo, after, table, exc, op>>
histVars == <<routed, explicit, close_calls>>
clientVars == <<num_threads, quota, ops_done>>
cfgVars == <<target, num_files, num_workers, build_ok, script, exit_code_of,
             imports, read_files, launch_ok, bad_record, parallel, cpu_count,
             lines, jsonl, numShards, schema, listing, target_arg>>
outVars == <<stdout>>
procVars == <<proc, pipe, returncode, signalled>>
orchVars == <<processes, process_lock, shutdown, future, task, collected, errors, snap, cq, cret, run_state>>
cliVars == <<writer_created, orchestrator_created, interrupted, handler_installed, sigints, pending, exit_status, out_dir>>
mainVars == <<cfgVars, outVars, procVars, orchVars, cliVars>>
vars == <<storeVars, threadVars, histVars, clientVars, mainVars>>

Shards == 0..(num_shards - 1)

\* ------------------------------------------ ShardedParquetWriter (pure part)
Store == [buffers |-> buffers, writers |-> writers, counts |-> counts, files |-> files]

SetStore(st) ==
    /\ buffers' = st.buffers
    /\ writers' = st.writers
    /\ counts' = st.counts
    /\ files' = st.files

\* buffer = self.buffers.setdefault(shard, []); buffer.append(record)
append_record(st, s, r) ==
    LET old == IF DictHas(st.buffers, s) THEN DictGet(st.buffers, s) ELSE <<>>
    IN [st EXCEPT !.buffers = DictSet(st.buffers, s, Append(old, r))]

\* mutant: the buffer is flushed one record late
buffer_full_strict(n, b) == n > b

\* "if len(buffer) >= self.batch_rows"
buffer_full(n, b) == n >= b

\* mutant: only a missing buffer is skipped, an empty one is flushed
flush_is_noop_missing_only(st, s) == ~DictHas(st.buffers, s)

\* records = self.buffers.get(shard); "if not records: return"
flush_is_noop(st, s) ==
    \/ ~DictHas(st.buffers, s)
    \/ DictGet(st.buffers, s) = <<>>

\* mutant: every flush opens a new sink on the shard's path
open_writer_each_flush(st, s) ==
    [st EXCEPT !.writers = DictSet(st.writers, s, "open"),
               !.files = DictSet(st.files, s, <<>>),
               !.counts = DictSet(st.counts, s, 0)]

\* "if shard not in self.writers": open the sink, create the file, counts = 0
open_writer(st, s) ==
    IF DictHas(st.writers, s) THEN st
    ELSE [st EXCEPT !.writers = DictSet(st.writers, s, "open"),
                    !.files = DictSet(st.files, s, <<>>),
                    !.counts = DictSet(st.counts, s, 0)]

\* mutant: a batch is put in front of the rows already in the file
write_table_in_front(st, s, tbl) ==
    [st EXCEPT !.files = DictSet(st.files, s, <<tbl>> \o DictGet(st.files, s))]

\* self.writers[shard].write_table(table)
write_table(st, s, tbl) ==
    [st EXCEPT !.files = DictSet(st.files, s, Append(DictGet(st.files, s), tbl))]

\* mutant: the counter is bumped by one per flush, not by the batch size
add_count_one(st, s, n) ==
    [st EXCEPT !.counts = DictSet(st.counts, s, DictGet(st.counts, s) + 1)]

\* self.counts[shard] += table.num_rows
add_count(st, s, n) ==
    [st EXCEPT !.counts = DictSet(st.counts, s, DictGet(st.counts, s) + n)]

\* mutant: the flushed records stay in the buffer
clear_buffer_skip(st, s) == st

\* records.clear()
clear_buffer(st, s) ==
    [st EXCEPT !.buffers = DictSet(st.buffers, s, <<>>)]

\* mutant: the batch is built without looking at the schema
schema_unchecked(records) == TRUE

\* pa.Table.from_pylist(records, schema=self.schema) accepts the batch only
\* if every record fits the schema
schema_ok(records) == \A i \in 1..Len(records) : records[i].valid

\* _flush_shard_unsafe run to completion on a store whose sinks are open
flush_shard_unsafe(st, s) ==
    IF flush_is_noop(st, s) THEN st
    ELSE LET tbl == DictGet(st.buffers, s)
             st1 == open_writer(st, s)
             st2 == write_table(st1, s, tbl)
             st3 == add_count(st2, s, Len(tbl))
         IN clear_buffer(st3, s)

\* "total_rows": sum(self.counts.values()) if self.counts else 0
total_rows(st) == IF st.counts = <<>> THEN 0 ELSE SumSeq(DictValues(st.counts))

\* mutant: close() reports the configured shard count
close_result_configured(st) == [total_rows |-> total_rows(st), num_shards |-> num_shards]

\* the dict close() returns (out_dir is fixed and left out)
close_result(st) == [total_rows |-> total_rows(st), num_shards |-> Len(st.writers)]

\* ------------------------------------- ShardedParquetWriter (step by step)
Top(t) == Head(todo[t])

\* mutant: the lock does not exclude anybody
lock_unguarded == TRUE

\* "with self._lock": a threading.Lock is free or held by one thread
lock_available == lock = NoThread

acquire(t) == lock_available /\ lock' = t

\* the end of one _flush_shard_unsafe call: back to the loop that called it
flush_return(t) ==
    /\ todo' = [todo EXCEPT ![t] = Tail(todo[t])]
    /\ pc' = [pc EXCEPT ![t] = IF Tail(todo[t]) = <<>> THEN after[t] ELSE "fl_check"]

\* the flush loops of flush_shard, flush_all and close
start_flush(t, shards, then) ==
    /\ todo' = [todo EXCEPT ![t] = shards]
    /\ after' = [after EXCEPT ![t] = then]
    /\ pc' = [pc EXCEPT ![t] = IF shards = <<>> THEN then ELSE "fl_check"]

\* add_record, "with self._lock:"
add_record_lock(t) ==
    /\ pc[t] = "add_lock"
    /\ acquire(t)
    /\ pc' = [pc EXCEPT ![t] = "add_append"]
    /\ UNCHANGED <<num_shards, batch_rows, buffers, writers, counts, files, stats>>
    /\ UNCHANGED <<ret, record, shard, todo, after, table, exc, op>>
    /\ UNCHANGED <<histVars, clientVars>>
    /\ UNCHANGED mainVars

\* add_record, the append and the "buffer is full" test
add_record_append(t) ==
    /\ pc[t] = "add_append"
    /\ LET st == append_record(Store, shard[t], record[t])
       IN /\ SetStore(st)
          /\ IF buffer_full(Len(DictGet(st.buffers, shard[t])), batch_rows)
             THEN start_flush(t, <<shard[t]>>, "unlock")
             ELSE /\ pc' = [pc EXCEPT ![t] = "unlock"]
                  /\ UNCHANGED <<todo, after>>
    /\ routed' = [routed EXCEPT ![shard[t]] = @ + 1]
    /\ UNCHANGED <<num_shards, batch_rows, lock, stats>>
    /\ UNCHANGED <<ret, record, shard, table, exc, op>>
    /\ UNCHANGED <<explicit, close_calls, clientVars>>
    /\ UNCHANGED mainVars

\* _flush_shard_unsafe, "if not records: return"
flush_check(t) ==
    /\ pc[t] = "fl_check"
    /\ IF flush_is_noop(Store, Top(t))
       THEN flush_return(t)
       ELSE /\ pc' = [pc EXCEPT ![t] = "fl_open"]
            /\ UNCHANGED todo
    /\ UNCHANGED <<storeVars, ret, record, shard, after, table, exc, op>>
    /\ UNCHANGED <<histVars, clientVars>>
    /\ UNCHANGED mainVars

\* _flush_shard_unsafe, "Open writer lazily" and
\* table = pa.Table.from_pylist(records, ...)
flush_open(t) ==
    /\ pc[t] = "fl_open"
    /\ schema_ok(DictGet(buffers, Top(t)))
    /\ SetStore(open_writer(Store, Top(t)))
    /\ table' = [table EXCEPT ![t] = DictGet(buffers, Top(t))]
    /\ pc' = [pc EXCEPT ![t] = "fl_write"]
    /\ UNCHANGED <<num_shards, batch_rows, lock, stats>>
    /\ UNCHANGED <<ret, record, shard, todo, after, exc, op>>
    /\ UNCHANGED <<histVars, clientVars>>
    /\ UNCHANGED mainVars

\* _flush_shard_unsafe, "Open writer lazily", then pa.Table.from_pylist
\* raises on a record that does not fit the schema: the error leaves the
\* "with" block, nothing is written or counted, the buffer is not cleared
flush_open_invalid(t) ==
    /\ pc[t] = "fl_open"
    /\ ~schema_ok(DictGet(buffers, Top(t)))
    /\ SetStore(open_writer(Store, Top(t)))
    /\ exc' = [exc EXCEPT ![t] = TRUE]
    /\ pc' = [pc EXCEPT ![t] = "unlock"]
    /\ UNCHANGED <<num_shards, batch_rows, lock, stats>>
    /\ UNCHANGED <<ret, record, shard, todo, after, table, op>>
    /\ UNCHANGED <<histVars, clientVars>>
    /\ UNCHANGED mainVars

\* _flush_shard_unsafe, self.writers[shard].write_table(table): a
\* ParquetWriter that was closed refuses the write and the error propagates
\* out of the "with" block
flush_write_closed(t) ==
    /\ pc[t] = "fl_write"
    /\ DictGet(writers, Top(t)) = "closed"
    /\ exc' = [exc EXCEPT ![t] = TRUE]
    /\ pc' = [pc EXCEPT ![t] = "unlock"]
    /\ UNCHANGED <<storeVars, ret, record, shard, todo, after, table, op>>
    /\ UNCHANGED <<histVars, clientVars>>
    /\ UNCHANGED mainVars

\* _flush_shard_unsafe, write_table(table); self.counts[shard] +=
\* table.num_rows; records.clear()
flush_write(t) ==
    /\ pc[t] = "fl_write"
    /\ DictGet(writers, Top(t)) = "open"
    /\ LET st1 == write_table(Store, Top(t), table[t])
           st2 == add_count(st1, Top(t), Len(table[t]))
       IN SetStore(clear_buffer(st2, Top(t)))
    /\ flush_return(t)
    /\ UNCHANGED <<num_shards, batch_rows, lock, stats>>
    /\ UNCHANGED <<ret, record, shard, after, table, exc, op>>
    /\ UNCHANGED <<histVars, clientVars>>
    /\ UNCHANGED mainVars

\* flush_shard, "with self._lock:"
flush_shard_lock(t) ==
    /\ pc[t] = "fs_lock"
    /\ acquire(t)
    /\ start_flush(t, <<shard[t]>>, "unlock")
    /\ UNCHANGED <<num_shards, batch_rows, buffers, writers, counts, files, stats>>
    /\ UNCHANGED <<ret, record, shard, table, exc, op>>
    /\ UNCHANGED <<histVars, clientVars>>
    /\ UNCHANGED mainVars

\* flush_all, "with self._lock: for shard in list(self.buffers.keys())"
flush_all_lock(t) ==
    /\ pc[t] = "fa_lock"
    /\ acquire(t)
    /\ start_flush(t, DictKeys(buffers), "unlock")
    /\ UNCHANGED <<num_shards, batch_rows, buffers, writers, counts, files, stats>>
    /\ UNCHANGED <<ret, record, shard, table, exc, op>>
    /\ UNCHANGED <<histVars, clientVars>>
    /\ UNCHANGED mainVars

\* mutant: close() flushes nothing before it closes the sinks
close_shards_none(b) == <<>>

\* close, "for shard in list(self.buffers.keys())"
close_shards(b) == DictKeys(b)

\* close, "with self._lock:" and the flush loop
close_lock(t) ==
    /\ pc[t] = "cl_lock"
    /\ acquire(t)
    /\ start_flush(t, close_shards(buffers), "cl_close")
    /\ UNCHANGED <<num_shards, batch_rows, buffers, writers, counts, files, stats>>
    /\ UNCHANGED <<ret, record, shard, table, exc, op>>
    /\ UNCHANGED <<histVars, clientVars>>
    /\ UNCHANGED mainVars

\* close, "for writer in self.writers.values(): writer.close()"
close_writers(t) ==
    /\ pc[t] = "cl_close"
    /\ writers' = [i \in 1..Len(writers) |-> <<writers[i][1], "closed">>]
    /\ pc' = [pc EXCEPT ![t] = "cl_stats"]
    /\ UNCHANGED <<num_shards, batch_rows, buffers, counts, files, lock, stats>>
    /\ UNCHANGED <<ret, record, shard, todo, after, table, exc, op>>
    /\ UNCHANGED <<histVars, clientVars>>
    /\ UNCHANGED mainVars

\* close, the statistics it returns
close_stats(t) ==
    /\ pc[t] = "cl_stats"
    /\ stats' = close_result(Store)
    /\ pc' = [pc EXCEPT ![t] = "unlock"]
    /\ UNCHANGED <<num_shards, batch_rows, buffers, writers, counts, files, lock>>
    /\ UNCHANGED <<ret, record, shard, todo, after, table, exc, op>>
    /\ UNCHANGED <<histVars, clientVars>>
    /\ UNCHANGED mainVars

\* the end of a "with self._lock:" block, by return or by exception
unlock(t) ==
    /\ pc[t] = "unlock"
    /\ lock' = NoThread
    /\ pc' = [pc EXCEPT ![t] = ret[t]]
    /\ record' = [record EXCEPT ![t] = NoRecord]
    /\ shard' = [shard EXCEPT ![t] = 0]
    /\ todo' = [todo EXCEPT ![t] = <<>>]
    /\ table' = [table EXCEPT ![t] = <<>>]
    /\ UNCHANGED <<num_shards, batch_rows, buffers, writers, counts, files, stats>>
    /\ UNCHANGED <<ret, after, exc, op>>
    /\ UNCHANGED <<histVars, clientVars>>
    /\ UNCHANGED mainVars

add_steps(t) ==
    \/ add_record_lock(t)
    \/ add_record_append(t)

flush_steps(t) ==
    \/ flush_check(t)
    \/ flush_open(t)
    \/ flush_write(t)

close_steps(t) ==
    \/ close_lock(t)
    \/ close_writers(t)
    \/ close_stats(t)

\* --------------------------------------------------- calls into the writer
\* add_record(record): the shard is computed before the lock is taken
call_add_record(t, r, back) ==
    /\ record' = [record EXCEPT ![t] = r]
    /\ shard' = IF jsonl THEN shard
                ELSE [shard EXCEPT ![t] = compute_shard(record_get(r), num_shards)]
    /\ pc' = [pc EXCEPT ![t] = IF jsonl THEN "jl_add" ELSE "add_lock"]
    /\ ret' = [ret EXCEPT ![t] = back]
    /\ op' = [op EXCEPT ![t] = "add_record"]

call_flush_shard(t, s, back) ==
    /\ shard' = [shard EXCEPT ![t] = s]
    /\ pc' = [pc EXCEPT ![t] = "fs_lock"]
    /\ ret' = [ret EXCEPT ![t] = back]
    /\ op' = [op EXCEPT ![t] = "flush_shard"]
    /\ UNCHANGED record

call_flush_all(t, back) ==
    /\ pc' = [pc EXCEPT ![t] = "fa_lock"]
    /\ ret' = [ret EXCEPT ![t] = back]
    /\ op' = [op EXCEPT ![t] = "flush_all"]
    /\ UNCHANGED <<record, shard>>

call_close(t, back) ==
    /\ pc' = [pc EXCEPT ![t] = IF jsonl THEN "jl_close" ELSE "cl_lock"]
    /\ ret' = [ret EXCEPT ![t] = back]
    /\ op' = [op EXCEPT ![t] = "close"]
    /\ close_calls' = close_calls + 1
    /\ UNCHANGED <<record, shard>>

\* ------------------------------------------------------- JsonLinesWriter
\* add_record: the record goes to the process's standard output as one line
jsonl_add_record(t) ==
    /\ pc[t] = "jl_add"
    /\ stdout' = Append(stdout, record[t])
    /\ pc' = [pc EXCEPT ![t] = ret[t]]
    /\ record' = [record EXCEPT ![t] = NoRecord]
    /\ UNCHANGED <<storeVars, histVars, clientVars, cfgVars, procVars, orchVars, cliVars>>
    /\ UNCHANGED <<ret, shard, todo, after, table, exc, op>>

\* close: nothing is buffered; the statistics count the lines written
jsonl_close(t) ==
    /\ pc[t] = "jl_close"
    /\ stats' = [total_rows |-> Len(stdout), num_shards |-> 0]
    /\ pc' = [pc EXCEPT ![t] = ret[t]]
    /\ UNCHANGED <<num_shards, batch_rows, buffers, writers, counts, files, lock>>
    /\ UNCHANGED <<histVars, clientVars, mainVars>>
    /\ UNCHANGED <<ret, record, shard, todo, after, table, exc, op>>

jsonl_steps(t) ==
    \/ jsonl_add_record(t)
    \/ jsonl_close(t)

\* --------------------------------------- the store used by client threads
\* (test_writer.py: threads call add_record / flush_shard / flush_all, and
\* one close() follows when all of them have finished)
Clients == 1..num_threads

\* one add_record call; ok says whether the record fits the schema
client_add_record(t, k, ok) ==
    /\ pc[t] = "idle"
    /\ ~exc[t]
    /\ close_calls = 0
    /\ ops_done[t] < quota
    /\ ops_done' = [ops_done EXCEPT ![t] = @ + 1]
    /\ call_add_record(t, [id |-> <<t, ops_done[t] + 1>>, key |-> k, valid |-> ok], "idle")
    /\ UNCHANGED <<storeVars, todo, after, table, exc, histVars, num_threads, quota>>
    /\ UNCHANGED mainVars

client_add(t, k) == client_add_record(t, k, TRUE)

client_flush_shard(t, s) ==
    /\ pc[t] = "idle"
    /\ ~exc[t]
    /\ close_calls = 0
    /\ ops_done[t] < quota
    /\ ops_done' = [ops_done EXCEPT ![t] = @ + 1]
    /\ call_flush_shard(t, s, "idle")
    /\ explicit' = TRUE
    /\ UNCHANGED <<storeVars, todo, after, table, exc, routed, close_calls>>
    /\ UNCHANGED <<num_threads, quota>>
    /\ UNCHANGED mainVars

client_flush_all(t) ==
    /\ pc[t] = "idle"
    /\ ~exc[t]
    /\ close_calls = 0
    /\ ops_done[t] < quota
    /\ ops_done' = [ops_done EXCEPT ![t] = @ + 1]
    /\ call_flush_all(t, "idle")
    /\ explicit' = TRUE
    /\ UNCHANGED <<storeVars, todo, after, table, exc, routed, close_calls>>
    /\ UNCHANGED <<num_threads, quota>>
    /\ UNCHANGED mainVars

client_close(t) ==
    /\ \A u \in Clients : pc[u] = "idle" /\ ~exc[u]
    /\ close_calls = 0
    /\ call_close(t, "done")
    /\ UNCHANGED <<storeVars, todo, after, table, exc, routed, explicit, clientVars>>
    /\ UNCHANGED mainVars

InitStore ==
    /\ num_shards \in 1..MaxShards
    /\ batch_rows \in 1..MaxBatch
    /\ buffers = <<>>
    /\ writers = <<>>
    /\ counts = <<>>
    /\ files = <<>>
    /\ lock = NoThread
    /\ stats = NoStats

InitThreads ==
    /\ pc = [t \in AllT |-> "idle"]
    /\ ret = [t \in AllT |-> "idle"]
    /\ record = [t \in AllT |-> NoRecord]
    /\ shard = [t \in AllT |-> 0]
    /\ todo = [t \in AllT |-> <<>>]
    /\ after = [t \in AllT |-> "unlock"]
    /\ table = [t \in AllT |-> <<>>]
    /\ exc = [t \in AllT |-> FALSE]
    /\ op = [t \in AllT |-> "none"]

InitHist ==
    /\ routed = [s \in 0..(MaxShards - 1) |-> 0]
    /\ explicit = FALSE
    /\ close_calls = 0

InitMainIdle ==
    /\ target = "none"
    /\ num_files = 0
    /\ num_workers = 0
    /\ build_ok = TRUE
    /\ script = [f \in 1..MaxFiles |-> 0]
    /\ exit_code_of = [f \in 1..MaxFiles |-> 0]
    /\ imports = -1
    /\ read_files = -1
    /\ launch_ok = [f \in 1..MaxFiles |-> TRUE]
    /\ bad_record = [f \in 1..MaxFiles |-> FALSE]
    /\ parallel = 0
    /\ cpu_count = 0
    /\ lines = [f \in 1..MaxFiles |-> [j \in 1..script[f] |-> "rec"]]
    /\ jsonl = FALSE
    /\ numShards = num_shards
    /\ schema = "ok"
    /\ listing = "ok"
    /\ target_arg = "none"
    /\ stdout = <<>>
    /\ proc = [f \in 1..MaxFiles |-> "none"]
    /\ pipe = [f \in 1..MaxFiles |-> <<>>]
    /\ returncode = [f \in 1..MaxFiles |-> 0]
    /\ signalled = [f \in 1..MaxFiles |-> {}]
    /\ processes = <<>>
    /\ process_lock = NoThread
    /\ shutdown = FALSE
    /\ future = [f \in 1..MaxFiles |-> "none"]
    /\ task = [t \in AllT |-> 0]
    /\ collected = {}
    /\ errors = <<>>
    /\ snap = [t \in AllT |-> <<>>]
    /\ cq = [t \in AllT |-> <<>>]
    /\ cret = [t \in AllT |-> "idle"]
    /\ run_state = "none"
    /\ writer_created = TRUE
    /\ orchestrator_created = FALSE
    /\ interrupted = FALSE
    /\ handler_installed = FALSE
    /\ sigints = 0
    /\ pending = "none"
    /\ exit_status = -1
    /\ out_dir = "present"

\* Threads that only add records, then one close() (test_writer_thread_safety)
Init ==
    /\ InitStore
    /\ InitThreads
    /\ InitHist
    /\ num_threads \in 1..MaxThreads
    /\ quota = MaxOps
    /\ ops_done = [t \in AllT |-> 0]
    /\ InitMainIdle

Next ==
    \/ \E t \in Clients, k \in ThreadKeys : client_add(t, k)
    \/ \E t \in Clients : add_steps(t)
    \/ \E t \in Clients : flush_steps(t)
    \/ \E t \in Clients : client_close(t)
    \/ \E t \in Clients : close_steps(t)
    \/ \E t \in Clients : unlock(t)

Spec == Init /\ [][Next]_vars

\* One caller making any sequence of add_record / flush_shard / flush_all
\* calls, then close()
InitSeq ==
    /\ InitStore
    /\ InitThreads
    /\ InitHist
    /\ num_threads = 1
    /\ quota = MaxCalls
    /\ ops_done = [t \in AllT |-> 0]
    /\ InitMainIdle

NextSeq ==
    \/ \E k \in KeyValues : client_add(1, k)
    \/ \E s \in Shards : client_flush_shard(1, s)
    \/ client_flush_all(1)
    \/ add_steps(1)
    \/ flush_shard_lock(1)
    \/ flush_all_lock(1)
    \/ flush_steps(1)
    \/ client_close(1)
    \/ close_steps(1)
    \/ unlock(1)

SpecSeq == InitSeq /\ [][NextSeq]_vars

\* One caller adding records with every kind of shard key, then close()
NextKeys ==
    \/ \E k \in RecordKeys : client_add(1, k)
    \/ add_steps(1)
    \/ flush_steps(1)
    \/ client_close(1)
    \/ close_steps(1)
    \/ unlock(1)

SpecKeys == InitSeq /\ [][NextKeys]_vars

\* the caller catches the error a writer call raised and goes on
client_catch(t) ==
    /\ pc[t] = "idle"
    /\ exc[t]
    /\ exc' = [exc EXCEPT ![t] = FALSE]
    /\ UNCHANGED <<storeVars, histVars, clientVars>>
    /\ UNCHANGED <<pc, ret, record, shard, todo, after, table, op>>
    /\ UNCHANGED mainVars

\* One caller whose records may violate the schema
NextSchema ==
    \/ \E k \in ThreadKeys, ok \in BOOLEAN : client_add_record(1, k, ok)
    \/ \E s \in Shards : client_flush_shard(1, s)
    \/ client_flush_all(1)
    \/ client_catch(1)
    \/ add_steps(1)
    \/ flush_shard_lock(1)
    \/ flush_all_lock(1)
    \/ flush_steps(1)
    \/ flush_open_invalid(1)
    \/ client_close(1)
    \/ close_steps(1)
    \/ unlock(1)

SpecSchema == InitSeq /\ [][NextSchema]_vars

\* ------------------------------------------------- worker processes (lake)
\* The record in the j-th line the worker of file f prints on its stdout.
worker_record(f, j) ==
    [id |-> <<f, j>>, key |-> IF j % 2 = 1 THEN StrKey("foo") ELSE StrKey("bar"),
     valid |-> ~bad_record[f]]

\* A line of text is a sequence of tokens: a blank, a newline, an opening
\* brace with nothing after it, or the text of one JSON object.
Tok(c) == [ch |-> c, rec |-> NoRecord]

Obj(r) == [ch |-> "obj", rec |-> r]

\* the lines a worker may print
LineShapes == {"rec", "padded", "blank", "space", "malformed"}

make_line(shape, r) ==
    IF shape = "rec" THEN <<Obj(r), Tok("\n")>>
    ELSE IF shape = "padded" THEN <<Tok(" "), Obj(r), Tok(" "), Tok("\n")>>
    ELSE IF shape = "blank" THEN <<Tok("\n")>>
    ELSE IF shape = "space" THEN <<Tok(" "), Tok("\n")>>
    ELSE <<Tok(" "), Tok("{"), Tok("\n")>>

worker_output(f) == [j \in 1..Len(lines[f]) |-> make_line(lines[f][j], worker_record(f, j))]

\* ---- stream_json_lines
is_space(tok) == tok.ch \in {" ", "\n"}

RECURSIVE lstrip(_)
lstrip(s) == IF s # <<>> /\ is_space(Head(s)) THEN lstrip(Tail(s)) ELSE s

RECURSIVE rstrip(_)
rstrip(s) ==
    IF s # <<>> /\ is_space(s[Len(s)]) THEN rstrip(SubSeq(s, 1, Len(s) - 1)) ELSE s

\* line.strip()
strip(s) == rstrip(lstrip(s))

\* json.loads(line) does not raise JSONDecodeError: the text is one JSON value
json_ok(s) == Len(s) = 1 /\ s[1].ch = "obj"

\* json.loads(line)
json_loads(s) == s[1].rec

\* mutant: the JSONDecodeError is not caught
line_outcome_strict(line) ==
    IF strip(line) = <<>> THEN "skip"
    ELSE IF json_ok(strip(line)) THEN "yield"
    ELSE "raise"

\* one round of the loop of stream_json_lines: a blank line is skipped
\* ("continue"), a line that parses is yielded, a JSONDecodeError is caught
\* and logged and the loop goes on
line_outcome(line) ==
    IF strip(line) = <<>> THEN "skip"
    ELSE IF json_ok(strip(line)) THEN "yield"
    ELSE "skip"

Files == 1..num_files

\* a worker exits with its own status
proc_exit(f) ==
    /\ proc[f] = "running"
    /\ proc' = [proc EXCEPT ![f] = "exited"]
    /\ returncode' = [returncode EXCEPT ![f] = exit_code_of[f]]
    /\ UNCHANGED <<storeVars, threadVars, histVars, clientVars, cfgVars, outVars, orchVars, cliVars>>
    /\ UNCHANGED <<pipe, signalled>>

\* a worker that was signalled dies (SIGTERM: -15, SIGKILL: -9)
proc_die(f) ==
    /\ proc[f] = "running"
    /\ signalled[f] # {}
    /\ proc' = [proc EXCEPT ![f] = "exited"]
    /\ returncode' = [returncode EXCEPT ![f] = IF "KILL" \in signalled[f] THEN -9 ELSE -15]
    /\ UNCHANGED <<storeVars, threadVars, histVars, clientVars, cfgVars, outVars, orchVars, cliVars>>
    /\ UNCHANGED <<pipe, signalled>>

\* ------------------------------------------------------------ Orchestrator
\* truth value of a list argument: None and [] are false
truthy(n) == n > 0

\* mutant: only the "neither" case is rejected
init_valid_either(i, r) == truthy(i) \/ truthy(r)

\* Orchestrator.__init__, "Validate arguments": neither ValueError is raised
init_valid(i, r) ==
    /\ ~(truthy(i) /\ truthy(r))
    /\ ~(~truthy(i) /\ ~truthy(r))

\* the branch run() takes
run_target(i, r) ==
    IF truthy(i) THEN "imports"
    ELSE IF truthy(r) THEN (IF r = 1 THEN "single" ELSE "multi")
    ELSE "none"

\* mutant: the requested parallelism is used as it is
clamp_parallel_none(p, cpus) == p

\* cli.main: --parallel above the number of CPU cores is lowered to it
clamp_parallel(p, cpus) == IF p > cpus THEN cpus ELSE p

\* _run_multiple_files: max_workers = min(self.num_workers, num_files)
min(a, b) == IF a <= b THEN a ELSE b

max_workers == min(num_workers, num_files)

Pool == 1..max_workers

\* subprocess.Popen(...) in _spawn_lean_subprocess; the worker's output is
\* in the pipe from the start
popen(f) ==
    /\ proc' = [proc EXCEPT ![f] = "running"]
    /\ pipe' = [pipe EXCEPT ![f] = worker_output(f)]

\* _spawn_lean_subprocess, "with self._process_lock:"
spawn_lock(t, here, next) ==
    /\ pc[t] = here
    /\ process_lock = NoThread
    /\ process_lock' = t
    /\ pc' = [pc EXCEPT ![t] = next]
    /\ UNCHANGED <<storeVars, histVars, clientVars, cfgVars, outVars, procVars, cliVars>>
    /\ UNCHANGED <<ret, record, shard, todo, after, table, exc, op>>
    /\ UNCHANGED <<processes, shutdown, future, task, collected, errors, snap, cq, cret, run_state>>

\* _spawn_lean_subprocess, self._processes.append(process), lock released
spawn_register(t, here, next) ==
    /\ pc[t] = here
    /\ processes' = Append(processes, task[t])
    /\ process_lock' = NoThread
    /\ pc' = [pc EXCEPT ![t] = next]
    /\ UNCHANGED <<storeVars, histVars, clientVars, cfgVars, outVars, procVars, cliVars>>
    /\ UNCHANGED <<ret, record, shard, todo, after, table, exc, op>>
    /\ UNCHANGED <<shutdown, future, task, collected, errors, snap, cq, cret, run_state>>

\* _process_subprocess_output: the next record stream_json_lines yields goes
\* to writer.add_record; the loop ends at the end of the stream
read_record(t, here) ==
    /\ pc[t] = here
    /\ ~exc[t]
    /\ pipe[task[t]] # <<>>
    /\ line_outcome(Head(pipe[task[t]])) = "yield"
    /\ pipe' = [pipe EXCEPT ![task[t]] = Tail(@)]
    /\ call_add_record(t, json_loads(strip(Head(pipe[task[t]]))), here)
    /\ UNCHANGED <<storeVars, histVars, clientVars, cfgVars, outVars, orchVars, cliVars>>
    /\ UNCHANGED <<todo, after, table, exc>>
    /\ UNCHANGED <<proc, returncode, signalled>>

\* stream_json_lines reads a line it does not yield
read_skip(t, here) ==
    /\ pc[t] = here
    /\ ~exc[t]
    /\ pipe[task[t]] # <<>>
    /\ line_outcome(Head(pipe[task[t]])) # "yield"
    /\ pipe' = [pipe EXCEPT ![task[t]] = Tail(@)]
    /\ exc' = [exc EXCEPT ![t] = line_outcome(Head(pipe[task[t]])) = "raise"]
    /\ UNCHANGED <<storeVars, histVars, clientVars, cfgVars, outVars, orchVars, cliVars>>
    /\ UNCHANGED <<pc, ret, record, shard, todo, after, table, op>>
    /\ UNCHANGED <<proc, returncode, signalled>>

\* mutant: the reader stops as soon as the worker has exited
stream_ended_at_exit(f) == proc[f] = "exited"

\* "for line in stdout" ends: every line was read and the worker has closed
\* its end of the pipe
stream_ended(f) == pipe[f] = <<>> /\ proc[f] = "exited"

read_eof(t, here, next) ==
    /\ pc[t] = here
    /\ ~exc[t]
    /\ stream_ended(task[t])
    /\ pc' = [pc EXCEPT ![t] = next]
    /\ UNCHANGED <<storeVars, histVars, clientVars, cfgVars, outVars, procVars, orchVars, cliVars>>
    /\ UNCHANGED <<ret, record, shard, todo, after, table, exc, op>>

\* ---- cleanup()
call_cleanup(t, back) ==
    /\ pc' = [pc EXCEPT ![t] = "c_flag"]
    /\ cret' = [cret EXCEPT ![t] = back]

\* self._shutdown = True
cleanup_flag(t) ==
    /\ pc[t] = "c_flag"
    /\ shutdown' = TRUE
    /\ pc' = [pc EXCEPT ![t] = "c_snap"]
    /\ UNCHANGED <<storeVars, histVars, clientVars, cfgVars, outVars, procVars, cliVars>>
    /\ UNCHANGED <<ret, record, shard, todo, after, table, exc, op>>
    /\ UNCHANGED <<processes, process_lock, future, task, collected, errors, snap, cq, cret, run_state>>

\* with self._process_lock: processes = list(self._processes);
\* "if not processes: return"
cleanup_snapshot(t) ==
    /\ pc[t] = "c_snap"
    /\ process_lock = NoThread
    /\ snap' = [snap EXCEPT ![t] = processes]
    /\ cq' = [cq EXCEPT ![t] = processes]
    /\ pc' = [pc EXCEPT ![t] = IF processes = <<>> THEN cret[t] ELSE "c_term"]
    /\ UNCHANGED <<storeVars, histVars, clientVars, cfgVars, outVars, procVars, cliVars>>
    /\ UNCHANGED <<ret, record, shard, todo, after, table, exc, op>>
    /\ UNCHANGED <<processes, process_lock, shutdown, future, task, collected, errors, cret, run_state>>

\* mutant: the killpg calls are not wrapped in contextlib.suppress
suppress_nothing == FALSE

\* "with contextlib.suppress(ProcessLookupError, PermissionError)": the error
\* os.killpg raises for a process group that is gone is swallowed
suppress_lookup_error == TRUE

\* the end of one round of the SIGTERM loop
cleanup_term_next(t) ==
    /\ cq' = [cq EXCEPT ![t] = IF Tail(@) = <<>> THEN snap[t] ELSE Tail(@)]
    /\ pc' = [pc EXCEPT ![t] = IF Tail(cq[t]) = <<>> THEN "c_wait" ELSE "c_term"]

\* os.killpg(process.pid, sig): the signal reaches a process that is still
\* running; for one that has exited killpg raises ProcessLookupError, which
\* is suppressed, or else leaves cleanup()
killpg(t, sig) ==
    LET f == Head(cq[t])
    IN signalled' = IF proc[f] = "running"
                    THEN [signalled EXCEPT ![f] = @ \cup {sig}]
                    ELSE signalled

\* the killpg call inside the "with" block returns normally
killpg_returns(t) == proc[Head(cq[t])] = "running" \/ suppress_lookup_error

\* ProcessLookupError leaves cleanup()
killpg_raise(t) ==
    /\ exc' = [exc EXCEPT ![t] = TRUE]
    /\ pc' = [pc EXCEPT ![t] = cret[t]]
    /\ UNCHANGED cq

\* mutant: no process is found running
poll_is_none_never(f) == FALSE

\* "process.poll() is None": the process is still running
poll_is_none(f) == proc[f] = "running"

\* first loop: "if process.poll() is None"
cleanup_poll(t) ==
    /\ pc[t] = "c_term"
    /\ IF poll_is_none(Head(cq[t]))
       THEN /\ pc' = [pc EXCEPT ![t] = "c_killpg"]
            /\ UNCHANGED cq
       ELSE cleanup_term_next(t)
    /\ UNCHANGED <<storeVars, histVars, clientVars, cfgVars, outVars, procVars, cliVars>>
    /\ UNCHANGED <<ret, record, shard, todo, after, table, exc, op>>
    /\ UNCHANGED <<processes, process_lock, shutdown, future, task, collected, errors, snap, cret, run_state>>

\* first loop: SIGTERM to the group of the process polled as running
cleanup_terminate(t) ==
    /\ pc[t] = "c_killpg"
    /\ killpg(t, "TERM")
    /\ IF killpg_returns(t)
       THEN cleanup_term_next(t) /\ UNCHANGED exc
       ELSE killpg_raise(t)
    /\ UNCHANGED <<storeVars, histVars, clientVars, cfgVars, outVars, cliVars>>
    /\ UNCHANGED <<ret, record, shard, todo, after, table, op>>
    /\ UNCHANGED <<proc, pipe, returncode>>
    /\ UNCHANGED <<processes, process_lock, shutdown, future, task, collected, errors, snap, cret, run_state>>

\* the end of one round of the wait loop
cleanup_next(t) ==
    /\ cq' = [cq EXCEPT ![t] = Tail(@)]
    /\ snap' = [snap EXCEPT ![t] = IF Tail(cq[t]) = <<>> THEN <<>> ELSE @]
    /\ pc' = [pc EXCEPT ![t] = IF Tail(cq[t]) = <<>> THEN cret[t] ELSE "c_wait"]

\* second loop: process.wait(timeout=2) returns, the process has exited
cleanup_waited(t) ==
    /\ pc[t] = "c_wait"
    /\ proc[Head(cq[t])] = "exited"
    /\ cleanup_next(t)
    /\ UNCHANGED <<storeVars, histVars, clientVars, cfgVars, outVars, procVars, cliVars>>
    /\ UNCHANGED <<ret, record, shard, todo, after, table, exc, op>>
    /\ UNCHANGED <<processes, process_lock, shutdown, future, task, collected, errors, cret, run_state>>

\* second loop: process.wait(timeout=2) raises TimeoutExpired
cleanup_timeout(t) ==
    /\ pc[t] = "c_wait"
    /\ proc[Head(cq[t])] = "running"
    /\ pc' = [pc EXCEPT ![t] = "c_kill"]
    /\ UNCHANGED <<storeVars, histVars, clientVars, cfgVars, outVars, procVars, orchVars, cliVars>>
    /\ UNCHANGED <<ret, record, shard, todo, after, table, exc, op>>

cleanup_kill_next(t) ==
    /\ pc' = [pc EXCEPT ![t] = "c_kill_wait"]
    /\ UNCHANGED cq

\* second loop: SIGKILL to the group of the process that did not terminate
cleanup_kill(t) ==
    /\ pc[t] = "c_kill"
    /\ killpg(t, "KILL")
    /\ IF killpg_returns(t)
       THEN cleanup_kill_next(t) /\ UNCHANGED exc
       ELSE killpg_raise(t)
    /\ UNCHANGED <<storeVars, histVars, clientVars, cfgVars, outVars, cliVars>>
    /\ UNCHANGED <<ret, record, shard, todo, after, table, op>>
    /\ UNCHANGED <<proc, pipe, returncode>>
    /\ UNCHANGED <<processes, process_lock, shutdown, future, task, collected, errors, snap, cret, run_state>>

\* second loop: process.wait() after the SIGKILL
cleanup_killed(t) ==
    /\ pc[t] = "c_kill_wait"
    /\ proc[Head(cq[t])] = "exited"
    /\ cleanup_next(t)
    /\ UNCHANGED <<storeVars, histVars, clientVars, cfgVars, outVars, procVars, cliVars>>
    /\ UNCHANGED <<ret, record, shard, todo, after, table, exc, op>>
    /\ UNCHANGED <<processes, process_lock, shutdown, future, task, collected, errors, cret, run_state>>

cleanup_steps(t) ==
    \/ cleanup_flag(t)
    \/ cleanup_snapshot(t)
    \/ cleanup_poll(t)
    \/ cleanup_terminate(t)
    \/ cleanup_waited(t)
    \/ cleanup_timeout(t)
    \/ cleanup_kill(t)
    \/ cleanup_killed(t)

\* ---- _process_file, run by the threads of the ThreadPoolExecutor
\* mutant: a unit that failed is queued again
Pending_or_failed == {f \in Files : future[f] \in {"pending", "failed"}}

\* the work queue of the executor: units submitted and not yet started
Pending == {f \in Files : future[f] = "pending"}

\* a pool thread takes the oldest submitted task
pool_take(t) ==
    /\ pc[t] = "w_idle"
    /\ Pending # {}
    /\ LET f == CHOOSE g \in Pending : \A h \in Pending : g <= h
       IN /\ future' = [future EXCEPT ![f] = "running"]
          /\ task' = [task EXCEPT ![t] = f]
    /\ pc' = [pc EXCEPT ![t] = "w_check"]
    /\ UNCHANGED <<storeVars, histVars, clientVars, cfgVars, outVars, procVars, cliVars>>
    /\ UNCHANGED <<ret, record, shard, todo, after, table, exc, op>>
    /\ UNCHANGED <<processes, process_lock, shutdown, collected, errors, snap, cq, cret, run_state>>

\* "if self._shutdown: raise RuntimeError"
process_file_check(t) ==
    /\ pc[t] = "w_check"
    /\ IF shutdown
       THEN /\ future' = [future EXCEPT ![task[t]] = "failed"]
            /\ pc' = [pc EXCEPT ![t] = "w_idle"]
       ELSE /\ pc' = [pc EXCEPT ![t] = "w_spawn"]
            /\ UNCHANGED future
    /\ UNCHANGED <<storeVars, histVars, clientVars, cfgVars, outVars, procVars, cliVars>>
    /\ UNCHANGED <<ret, record, shard, todo, after, table, exc, op>>
    /\ UNCHANGED <<processes, process_lock, shutdown, task, collected, errors, snap, cq, cret, run_state>>

process_file_popen(t) ==
    /\ pc[t] = "w_spawn"
    /\ launch_ok[task[t]]
    /\ popen(task[t])
    /\ pc' = [pc EXCEPT ![t] = "w_reg"]
    /\ UNCHANGED <<storeVars, histVars, clientVars, cfgVars, outVars, orchVars, cliVars>>
    /\ UNCHANGED <<ret, record, shard, todo, after, table, exc, op>>
    /\ UNCHANGED <<returncode, signalled>>

\* subprocess.Popen raises (the worker cannot be started): the error leaves
\* _process_file before its try block and becomes the future's outcome
process_file_popen_fail(t) ==
    /\ pc[t] = "w_spawn"
    /\ ~launch_ok[task[t]]
    /\ future' = [future EXCEPT ![task[t]] = "failed"]
    /\ task' = [task EXCEPT ![t] = 0]
    /\ pc' = [pc EXCEPT ![t] = "w_idle"]
    /\ UNCHANGED <<storeVars, histVars, clientVars, cfgVars, outVars, procVars, cliVars>>
    /\ UNCHANGED <<ret, record, shard, todo, after, table, exc, op>>
    /\ UNCHANGED <<processes, process_lock, shutdown, collected, errors, snap, cq, cret, run_state>>

\* _spawn_lean_subprocess, "with self._process_lock: append"
process_file_register(t) ==
    /\ pc[t] = "w_reg"
    /\ process_lock = NoThread
    /\ processes' = Append(processes, task[t])
    /\ pc' = [pc EXCEPT ![t] = "w_read"]
    /\ UNCHANGED <<storeVars, histVars, clientVars, cfgVars, outVars, procVars, cliVars>>
    /\ UNCHANGED <<ret, record, shard, todo, after, table, exc, op>>
    /\ UNCHANGED <<process_lock, shutdown, future, task, collected, errors, snap, cq, cret, run_state>>

process_file_read(t) == read_record(t, "w_read")

process_file_eof(t) == read_eof(t, "w_read", "w_wait")

\* add_record raised: the exception leaves through the finally block
process_file_raise(t) ==
    /\ pc[t] = "w_read"
    /\ exc[t]
    /\ pc' = [pc EXCEPT ![t] = "w_fin"]
    /\ UNCHANGED <<storeVars, histVars, clientVars, cfgVars, outVars, procVars, orchVars, cliVars>>
    /\ UNCHANGED <<ret, record, shard, todo, after, table, exc, op>>

\* returncode = process.wait(); nonzero raises RuntimeError
process_file_wait(t) ==
    /\ pc[t] = "w_wait"
    /\ proc[task[t]] = "exited"
    /\ exc' = [exc EXCEPT ![t] = returncode[task[t]] # 0]
    /\ pc' = [pc EXCEPT ![t] = "w_fin"]
    /\ UNCHANGED <<storeVars, histVars, clientVars, cfgVars, outVars, procVars, orchVars, cliVars>>
    /\ UNCHANGED <<ret, record, shard, todo, after, table, op>>

\* finally: "with self._process_lock: self._processes.remove(process)";
\* the future gets its outcome
process_file_finally(t) ==
    /\ pc[t] = "w_fin"
    /\ process_lock = NoThread
    /\ processes' = SelectSeq(processes, LAMBDA f : f # task[t])
    /\ future' = [future EXCEPT ![task[t]] = IF exc[t] THEN "failed" ELSE "ok"]
    /\ exc' = [exc EXCEPT ![t] = FALSE]
    /\ task' = [task EXCEPT ![t] = 0]
    /\ pc' = [pc EXCEPT ![t] = "w_idle"]
    /\ UNCHANGED <<storeVars, histVars, clientVars, cfgVars, outVars, procVars, cliVars>>
    /\ UNCHANGED <<ret, record, shard, todo, after, table, op>>
    /\ UNCHANGED <<process_lock, shutdown, collected, errors, snap, cq, cret, run_state>>

process_file_steps(t) ==
    \/ pool_take(t)
    \/ process_file_check(t)
    \/ process_file_popen(t)
    \/ process_file_register(t)
    \/ process_file_read(t)
    \/ process_file_eof(t)
    \/ process_file_raise(t)
    \/ process_file_wait(t)
    \/ process_file_finally(t)

\* ------------------------------------------------- cli.main, main thread
\* The handler runs on the main thread between two of its instructions:
\* while it runs, the interrupted code of main does not advance.
HandlerActive == pc[SigT] # "idle"

MainAt(l) == pc[MainT] = l /\ ~HandlerActive

\* an exception raised by the main thread's own code inside run()
main_raise ==
    /\ pending' = "error"
    /\ run_state' = "raised"
    /\ pc' = [pc EXCEPT ![MainT] = "m_except"]

\* output_dir.mkdir(parents=True, exist_ok=False)
main_mkdir ==
    /\ MainAt("m_mkdir")
    /\ out_dir' = "present"
    /\ pc' = [pc EXCEPT ![MainT] = "m_install"]
    /\ UNCHANGED <<storeVars, histVars, clientVars, cfgVars, outVars, procVars, orchVars>>
    /\ UNCHANGED <<ret, record, shard, todo, after, table, exc, op>>
    /\ UNCHANGED <<writer_created, orchestrator_created, interrupted, handler_installed, sigints, pending, exit_status>>

\* signal.signal(signal.SIGINT, sigint_handler)
main_install ==
    /\ MainAt("m_install")
    /\ handler_installed' = TRUE
    /\ pc' = [pc EXCEPT ![MainT] = "m_writer"]
    /\ UNCHANGED <<storeVars, histVars, clientVars, cfgVars, outVars, procVars, orchVars>>
    /\ UNCHANGED <<ret, record, shard, todo, after, table, exc, op>>
    /\ UNCHANGED <<writer_created, orchestrator_created, interrupted, sigints, pending, exit_status, out_dir>>

\* an exception raised by main's own code before run() is entered
main_fail ==
    /\ pending' = "error"
    /\ pc' = [pc EXCEPT ![MainT] = "m_except"]

\* read_file_list / query_library_paths raises
read_files_error == target_arg = "list" /\ listing = "failed"

\* get_schema raises, or the schema document has no 'key' field
schema_error == schema # "ok"

\* "Determine read files list", then "Create writer":
\* writer = JsonLinesWriter(), or the schema query and
\* writer = ShardedParquetWriter(..., num_shards=args.numShards, ...)
main_writer ==
    /\ MainAt("m_writer")
    /\ IF read_files_error \/ (~jsonl /\ schema_error)
       THEN /\ main_fail
            /\ UNCHANGED <<writer_created, num_shards>>
       ELSE /\ writer_created' = TRUE
            /\ num_shards' = IF jsonl THEN num_shards ELSE numShards
            /\ pc' = [pc EXCEPT ![MainT] = "m_orch"]
            /\ UNCHANGED pending
    /\ UNCHANGED <<batch_rows, buffers, writers, counts, files, lock, stats>>
    /\ UNCHANGED <<histVars, clientVars, cfgVars, outVars, procVars, orchVars>>
    /\ UNCHANGED <<ret, record, shard, todo, after, table, exc, op>>
    /\ UNCHANGED <<orchestrator_created, interrupted, handler_installed, sigints, exit_status, out_dir>>

\* orchestrator = Orchestrator(...): the constructor may raise ValueError
main_orchestrator ==
    /\ MainAt("m_orch")
    /\ IF init_valid(imports, read_files)
       THEN /\ orchestrator_created' = TRUE
            /\ pc' = [pc EXCEPT ![MainT] = "m_run"]
            /\ UNCHANGED pending
       ELSE /\ main_fail
            /\ UNCHANGED orchestrator_created
    /\ UNCHANGED <<storeVars, histVars, clientVars, cfgVars, outVars, procVars, orchVars>>
    /\ UNCHANGED <<ret, record, shard, todo, after, table, exc, op>>
    /\ UNCHANGED <<writer_created, interrupted, handler_installed, sigints, exit_status, out_dir>>

\* run(): self._build_lean_scout(), then the branch on the target
run_build ==
    /\ MainAt("m_run")
    /\ IF build_ok
       THEN /\ run_state' = "running"
            /\ pc' = [pc EXCEPT ![MainT] = IF target = "multi" THEN "p_submit"
                                           ELSE IF target = "none" THEN "r_close"
                                           ELSE "r_spawn"]
            /\ UNCHANGED pending
       ELSE main_raise
    /\ UNCHANGED <<storeVars, histVars, clientVars, cfgVars, outVars, procVars>>
    /\ UNCHANGED <<ret, record, shard, todo, after, table, exc, op>>
    /\ UNCHANGED <<processes, process_lock, shutdown, future, task, collected, errors, snap, cq, cret>>
    /\ UNCHANGED <<writer_created, orchestrator_created, interrupted, handler_installed, sigints, exit_status, out_dir>>

\* _run_imports / _run_single_file
run_popen ==
    /\ MainAt("r_spawn")
    /\ launch_ok[1]
    /\ popen(1)
    /\ task' = [task EXCEPT ![MainT] = 1]
    /\ pc' = [pc EXCEPT ![MainT] = "r_reg_lock"]
    /\ UNCHANGED <<storeVars, histVars, clientVars, cfgVars, outVars, cliVars>>
    /\ UNCHANGED <<ret, record, shard, todo, after, table, exc, op>>
    /\ UNCHANGED <<returncode, signalled>>
    /\ UNCHANGED <<processes, process_lock, shutdown, future, collected, errors, snap, cq, cret, run_state>>

\* subprocess.Popen raises: the error leaves run()
run_popen_fail ==
    /\ MainAt("r_spawn")
    /\ ~launch_ok[1]
    /\ main_raise
    /\ UNCHANGED <<storeVars, histVars, clientVars, cfgVars, outVars, procVars>>
    /\ UNCHANGED <<ret, record, shard, todo, after, table, exc, op>>
    /\ UNCHANGED <<processes, process_lock, shutdown, future, task, collected, errors, snap, cq, cret>>
    /\ UNCHANGED <<writer_created, orchestrator_created, interrupted, handler_installed, sigints, exit_status, out_dir>>

\* writer.add_record raised inside _process_subprocess_output: the error
\* leaves run()
run_read_raise ==
    /\ MainAt("r_read")
    /\ exc[MainT]
    /\ exc' = [exc EXCEPT ![MainT] = FALSE]
    /\ main_raise
    /\ UNCHANGED <<storeVars, histVars, clientVars, cfgVars, outVars, procVars>>
    /\ UNCHANGED <<ret, record, shard, todo, after, table, op>>
    /\ UNCHANGED <<processes, process_lock, shutdown, future, task, collected, errors, snap, cq, cret>>
    /\ UNCHANGED <<writer_created, orchestrator_created, interrupted, handler_installed, sigints, exit_status, out_dir>>

run_lock == ~HandlerActive /\ spawn_lock(MainT, "r_reg_lock", "r_reg")

run_register == ~HandlerActive /\ spawn_register(MainT, "r_reg", "r_read")

run_read == ~HandlerActive /\ read_record(MainT, "r_read")

run_skip == ~HandlerActive /\ read_skip(MainT, "r_read")

run_eof == ~HandlerActive /\ read_eof(MainT, "r_read", "r_wait")

\* returncode = process.wait(); nonzero raises RuntimeError
run_wait ==
    /\ MainAt("r_wait")
    /\ proc[1] = "exited"
    /\ IF returncode[1] # 0
       THEN main_raise
       ELSE /\ pc' = [pc EXCEPT ![MainT] = "r_close"]
            /\ UNCHANGED <<pending, run_state>>
    /\ UNCHANGED <<storeVars, histVars, clientVars, cfgVars, outVars, procVars>>
    /\ UNCHANGED <<ret, record, shard, todo, after, table, exc, op>>
    /\ UNCHANGED <<processes, process_lock, shutdown, future, task, collected, errors, snap, cq, cret>>
    /\ UNCHANGED <<writer_created, orchestrator_created, interrupted, handler_installed, sigints, exit_status, out_dir>>

\* _run_multiple_files: executor.submit for every file
run_submit ==
    /\ MainAt("p_submit")
    /\ future' = [f \in 1..MaxFiles |-> IF f \in Files THEN "pending" ELSE "none"]
    /\ pc' = [pc EXCEPT ![MainT] = "p_collect"]
    /\ UNCHANGED <<storeVars, histVars, clientVars, cfgVars, outVars, procVars, cliVars>>
    /\ UNCHANGED <<ret, record, shard, todo, after, table, exc, op>>
    /\ UNCHANGED <<processes, process_lock, shutdown, task, collected, errors, snap, cq, cret, run_state>>

\* mutant: future.result() never raises
result_raises_never(f) == FALSE

\* future.result() re-raises the exception of a unit that failed
result_raises(f) == future[f] = "failed"

\* mutant: the loop over the futures stops at the first one
all_collected_first == collected # {}

\* as_completed(future_to_file) has yielded every future
all_collected == collected = Files

\* for future in as_completed(...): future.result()
run_collect(f) ==
    /\ MainAt("p_collect")
    /\ f \notin collected
    /\ future[f] \in {"ok", "failed"}
    /\ collected' = collected \cup {f}
    /\ errors' = IF result_raises(f) THEN Append(errors, f) ELSE errors
    /\ UNCHANGED <<storeVars, threadVars, histVars, clientVars, cfgVars, outVars, procVars, cliVars>>
    /\ UNCHANGED <<processes, process_lock, shutdown, future, task, snap, cq, cret, run_state>>

\* "if errors: raise RuntimeError(...)", else the with block ends
run_collected ==
    /\ MainAt("p_collect")
    /\ all_collected
    /\ IF errors # <<>>
       THEN main_raise
       ELSE /\ pc' = [pc EXCEPT ![MainT] = "r_close"]
            /\ UNCHANGED <<pending, run_state>>
    /\ UNCHANGED <<storeVars, histVars, clientVars, cfgVars, outVars, procVars>>
    /\ UNCHANGED <<ret, record, shard, todo, after, table, exc, op>>
    /\ UNCHANGED <<processes, process_lock, shutdown, future, task, collected, errors, snap, cq, cret>>
    /\ UNCHANGED <<writer_created, orchestrator_created, interrupted, handler_installed, sigints, exit_status, out_dir>>

\* "return self.writer.close()"
run_close ==
    /\ MainAt("r_close")
    /\ call_close(MainT, "r_return")
    /\ UNCHANGED <<storeVars, clientVars, cfgVars, outVars, procVars, orchVars, cliVars>>
    /\ UNCHANGED <<todo, after, table, exc>>
    /\ UNCHANGED <<routed, explicit>>

run_return ==
    /\ MainAt("r_return")
    /\ IF exc[MainT]
       THEN /\ exc' = [exc EXCEPT ![MainT] = FALSE]
            /\ main_raise
       ELSE /\ run_state' = "returned"
            /\ pc' = [pc EXCEPT ![MainT] = "m_finally"]
            /\ UNCHANGED <<exc, pending>>
    /\ UNCHANGED <<storeVars, histVars, clientVars, cfgVars, outVars, procVars>>
    /\ UNCHANGED <<ret, record, shard, todo, after, table, op>>
    /\ UNCHANGED <<processes, process_lock, shutdown, future, task, collected, errors, snap, cq, cret>>
    /\ UNCHANGED <<writer_created, orchestrator_created, interrupted, handler_installed, sigints, exit_status, out_dir>>

\* the directory exists: one this run created, or an older one ("old")
exists(d) == d \in {"present", "old"}

\* mutant: base_path is kept in the JSON Lines mode too
base_path_set_always == TRUE

\* "if args.jsonl: base_path = None": base_path is not None
base_path_set == ~jsonl

\* mutant: the except block leaves the directory alone
rmtree_applies_never == FALSE

\* "if base_path is not None and base_path.exists()"
rmtree_applies == base_path_set /\ exists(out_dir)

\* "except Exception": shutil.rmtree(base_path), sys.exit(1)
main_except ==
    /\ MainAt("m_except")
    /\ out_dir' = IF rmtree_applies THEN "removed" ELSE out_dir
    /\ files' = IF rmtree_applies THEN <<>> ELSE files
    /\ pending' = "exit1"
    /\ pc' = [pc EXCEPT ![MainT] = "m_finally"]
    /\ UNCHANGED <<num_shards, batch_rows, buffers, writers, counts, lock, stats>>
    /\ UNCHANGED <<histVars, clientVars, cfgVars, outVars, procVars, orchVars>>
    /\ UNCHANGED <<ret, record, shard, todo, after, table, exc, op>>
    /\ UNCHANGED <<writer_created, orchestrator_created, interrupted, handler_installed, sigints, exit_status>>

\* ThreadPoolExecutor.__exit__ on the way out of the with block:
\* shutdown(wait=True) joins the pool threads
main_join_pool ==
    /\ MainAt("u_pool")
    /\ \A f \in Files : future[f] \in {"ok", "failed"}
    /\ pc' = [pc EXCEPT ![MainT] = IF pending = "error" THEN "m_except" ELSE "m_finally"]
    /\ UNCHANGED <<storeVars, histVars, clientVars, cfgVars, outVars, procVars, orchVars, cliVars>>
    /\ UNCHANGED <<ret, record, shard, todo, after, table, exc, op>>

\* finally: signal.signal(signal.SIGINT, original_sigint)
main_finally ==
    /\ MainAt("m_finally")
    /\ handler_installed' = FALSE
    /\ pc' = [pc EXCEPT ![MainT] = "f_cleanup"]
    /\ UNCHANGED <<storeVars, histVars, clientVars, cfgVars, outVars, procVars, orchVars>>
    /\ UNCHANGED <<ret, record, shard, todo, after, table, exc, op>>
    /\ UNCHANGED <<writer_created, orchestrator_created, interrupted, sigints, pending, exit_status, out_dir>>

\* finally: "if orchestrator is not None: orchestrator.cleanup()"
main_finally_cleanup ==
    /\ MainAt("f_cleanup")
    /\ IF orchestrator_created
       THEN call_cleanup(MainT, "f_close")
       ELSE /\ pc' = [pc EXCEPT ![MainT] = "f_close"]
            /\ UNCHANGED cret
    /\ UNCHANGED <<storeVars, histVars, clientVars, cfgVars, outVars, procVars, cliVars>>
    /\ UNCHANGED <<ret, record, shard, todo, after, table, exc, op>>
    /\ UNCHANGED <<processes, process_lock, shutdown, future, task, collected, errors, snap, cq, run_state>>

\* finally: "if writer is not None and interrupted: writer.close()"
main_finally_close ==
    /\ MainAt("f_close")
    /\ IF writer_created /\ interrupted
       THEN call_close(MainT, "f_exit")
       ELSE /\ pc' = [pc EXCEPT ![MainT] = "f_exit"]
            /\ UNCHANGED <<ret, op, close_calls, record, shard>>
    /\ UNCHANGED <<storeVars, clientVars, cfgVars, outVars, procVars, orchVars, cliVars>>
    /\ UNCHANGED <<todo, after, table, exc>>
    /\ UNCHANGED <<routed, explicit>>

\* the pending SystemExit, or "if interrupted: sys.exit(130)"
main_exit ==
    /\ MainAt("f_exit")
    /\ exit_status' = IF exc[MainT] \/ pending \in {"exit1", "error"} THEN 1
                      ELSE IF pending = "exit130" \/ interrupted THEN 130
                      ELSE 0
    /\ pc' = [pc EXCEPT ![MainT] = "exited"]
    /\ UNCHANGED <<storeVars, histVars, clientVars, cfgVars, outVars, procVars, orchVars>>
    /\ UNCHANGED <<ret, record, shard, todo, after, table, exc, op>>
    /\ UNCHANGED <<writer_created, orchestrator_created, interrupted, handler_installed, sigints, pending, out_dir>>

\* ---- sigint_handler
\* SIGINT is delivered while the handler is installed
sigint ==
    /\ handler_installed
    /\ ~HandlerActive
    /\ pc[MainT] # "exited"
    /\ sigints < MaxSigints
    /\ sigints' = sigints + 1
    /\ pc' = [pc EXCEPT ![SigT] = "h_check"]
    /\ UNCHANGED <<storeVars, histVars, clientVars, cfgVars, outVars, procVars, orchVars>>
    /\ UNCHANGED <<ret, record, shard, todo, after, table, exc, op>>
    /\ UNCHANGED <<writer_created, orchestrator_created, interrupted, handler_installed, pending, exit_status, out_dir>>

\* "if interrupted: sys.exit(130)"; interrupted = True
handler_check ==
    /\ pc[SigT] = "h_check"
    /\ interrupted' = TRUE
    /\ pc' = [pc EXCEPT ![SigT] = IF interrupted THEN "h_exit" ELSE "h_cleanup"]
    /\ UNCHANGED <<storeVars, histVars, clientVars, cfgVars, outVars, procVars, orchVars>>
    /\ UNCHANGED <<ret, record, shard, todo, after, table, exc, op>>
    /\ UNCHANGED <<writer_created, orchestrator_created, handler_installed, sigints, pending, exit_status, out_dir>>

\* "if orchestrator is not None: orchestrator.cleanup()"
handler_cleanup ==
    /\ pc[SigT] = "h_cleanup"
    /\ IF orchestrator_created
       THEN call_cleanup(SigT, "h_close")
       ELSE /\ pc' = [pc EXCEPT ![SigT] = "h_close"]
            /\ UNCHANGED cret
    /\ UNCHANGED <<storeVars, histVars, clientVars, cfgVars, outVars, procVars, cliVars>>
    /\ UNCHANGED <<ret, record, shard, todo, after, table, exc, op>>
    /\ UNCHANGED <<processes, process_lock, shutdown, future, task, collected, errors, snap, cq, run_state>>

\* "if writer is not None: writer.close()"
handler_close ==
    /\ pc[SigT] = "h_close"
    /\ IF writer_created
       THEN call_close(SigT, "h_exit")
       ELSE /\ pc' = [pc EXCEPT ![SigT] = "h_exit"]
            /\ UNCHANGED <<ret, op, close_calls, record, shard>>
    /\ UNCHANGED <<storeVars, clientVars, cfgVars, outVars, procVars, orchVars, cliVars>>
    /\ UNCHANGED <<todo, after, table, exc>>
    /\ UNCHANGED <<routed, explicit>>

\* where the main thread resumes when an exception leaves the handler
\* and propagates from the interrupted instruction of main:
\*  - inside the "with ThreadPoolExecutor" block with tasks submitted, the
\*    executor's __exit__ joins the pool first;
\*  - on the first instruction of the finally block (in_finally), the rest
\*    of the block is skipped;
\*  - inside the except block, or for a SystemExit, the finally block runs;
\*  - otherwise "except Exception" catches it.
resume_at(error, in_finally) ==
    IF pc[MainT] = "p_collect" THEN "u_pool"
    ELSE IF in_finally THEN "f_exit"
    ELSE IF error /\ pc[MainT] \notin {"m_except", "m_finally"} THEN "m_except"
    ELSE "m_finally"

InRun ==
    \/ pc[MainT] \in {"r_spawn", "r_reg_lock", "r_reg", "r_read", "r_wait",
                      "p_submit", "p_collect", "r_close", "r_return"}
    \/ /\ run_state = "running"
       /\ ret[MainT] \in {"r_read", "r_return"}
       /\ pc[MainT] \in {"add_lock", "cl_lock"}

\* sys.exit(130) at the end of the handler (or the exception close() raised)
\* unwinds the interrupted main thread
handler_exit ==
    /\ pc[SigT] = "h_exit"
    /\ pending' = IF exc[SigT] THEN "error" ELSE "exit130"
    /\ exc' = [exc EXCEPT ![SigT] = FALSE]
    /\ run_state' = IF InRun THEN "raised" ELSE run_state
    /\ \E in_finally \in BOOLEAN :
          /\ in_finally => pc[MainT] = "m_finally"
          /\ pc' = [pc EXCEPT ![SigT] = "idle",
                              ![MainT] = resume_at(exc[SigT], in_finally)]
    /\ UNCHANGED <<storeVars, histVars, clientVars, cfgVars, outVars, procVars>>
    /\ UNCHANGED <<ret, record, shard, todo, after, table, op>>
    /\ UNCHANGED <<processes, process_lock, shutdown, future, task, collected, errors, snap, cq, cret>>
    /\ UNCHANGED <<writer_created, orchestrator_created, interrupted, handler_installed, sigints, exit_status, out_dir>>

\* SIGINT is delivered again while sigint_handler runs, after it has set
\* interrupted: the nested call takes "if interrupted: sys.exit(130)". The
\* SystemExit unwinds the first handler from where it stands, and a "with"
\* block it leaves releases its lock; then it unwinds the interrupted main
\* thread like the sys.exit(130) at the end of the handler does.
sigint_nested ==
    /\ handler_installed
    /\ pc[SigT] \notin {"idle", "h_check"}
    /\ sigints = MaxSigints
    /\ sigints' = sigints + 1
    /\ pending' = "exit130"
    /\ exc' = [exc EXCEPT ![SigT] = FALSE, ![MainT] = FALSE]
    /\ lock' = IF lock \in {MainT, SigT} THEN NoThread ELSE lock
    /\ process_lock' = IF process_lock \in {MainT, SigT} THEN NoThread ELSE process_lock
    /\ run_state' = IF InRun THEN "raised" ELSE run_state
    /\ \E in_finally \in BOOLEAN :
          /\ in_finally => pc[MainT] = "m_finally"
          /\ pc' = [pc EXCEPT ![SigT] = "idle",
                              ![MainT] = resume_at(FALSE, in_finally)]
    /\ UNCHANGED <<num_shards, batch_rows, buffers, writers, counts, files, stats>>
    /\ UNCHANGED <<histVars, clientVars, cfgVars, outVars, procVars>>
    /\ UNCHANGED <<ret, record, shard, todo, after, table, op>>
    /\ UNCHANGED <<processes, shutdown, future, task, collected, errors, snap, cq, cret>>
    /\ UNCHANGED <<writer_created, orchestrator_created, interrupted, handler_installed, exit_status, out_dir>>

handler_steps ==
    \/ handler_check
    \/ handler_cleanup
    \/ handler_close
    \/ handler_exit

InitMain ==
    /\ InitStore
    /\ num_shards = MaxShards
    /\ InitHist
    /\ num_threads = 0
    /\ quota = 0
    /\ ops_done = [t \in AllT |-> 0]
    /\ pc = [t \in AllT |-> IF t = MainT THEN "m_mkdir" ELSE IF t = SigT THEN "idle" ELSE "w_idle"]
    /\ ret = [t \in AllT |-> "idle"]
    /\ record = [t \in AllT |-> NoRecord]
    /\ shard = [t \in AllT |-> 0]
    /\ todo = [t \in AllT |-> <<>>]
    /\ after = [t \in AllT |-> "unlock"]
    /\ table = [t \in AllT |-> <<>>]
    /\ exc = [t \in AllT |-> FALSE]
    /\ op = [t \in AllT |-> "none"]
    /\ target \in {"imports", "single", "multi"}
    /\ num_files \in 1..MaxFiles
    /\ (target = "multi") = (num_files > 1)
    /\ num_workers \in 1..MaxThreads
    /\ target # "multi" => num_workers = 1
    /\ build_ok \in BOOLEAN
    /\ script \in [1..MaxFiles -> {0, MaxLines}]
    /\ exit_code_of \in [1..MaxFiles -> {0, 1}]
    /\ \A f \in 1..MaxFiles : f \in Files => script[f] = MaxLines
    /\ \A f \in 1..MaxFiles : f \notin Files => script[f] = 0 /\ exit_code_of[f] = 0
    /\ ~build_ok => \A f \in 1..MaxFiles : exit_code_of[f] = 0
    /\ imports = IF target = "imports" THEN 1 ELSE -1
    /\ read_files = IF target = "imports" THEN -1 ELSE num_files
    /\ launch_ok = [f \in 1..MaxFiles |-> TRUE]
    /\ bad_record = [f \in 1..MaxFiles |-> FALSE]
    /\ parallel = num_workers
    /\ cpu_count = MaxThreads
    /\ lines = [f \in 1..MaxFiles |-> [j \in 1..script[f] |-> "rec"]]
    /\ jsonl = FALSE
    /\ numShards = num_shards
    /\ schema = "ok"
    /\ listing = "ok"
    /\ target_arg = IF target = "imports" THEN "imports" ELSE "read"
    /\ stdout = <<>>
    /\ proc = [f \in 1..MaxFiles |-> "none"]
    /\ pipe = [f \in 1..MaxFiles |-> <<>>]
    /\ returncode = [f \in 1..MaxFiles |-> 0]
    /\ signalled = [f \in 1..MaxFiles |-> {}]
    /\ processes = <<>>
    /\ process_lock = NoThread
    /\ shutdown = FALSE
    /\ future = [f \in 1..MaxFiles |-> "none"]
    /\ task = [t \in AllT |-> 0]
    /\ collected = {}
    /\ errors = <<>>
    /\ snap = [t \in AllT |-> <<>>]
    /\ cq = [t \in AllT |-> <<>>]
    /\ cret = [t \in AllT |-> "idle"]
    /\ run_state = "none"
    /\ writer_created = FALSE
    /\ orchestrator_created = FALSE
    /\ interrupted = FALSE
    /\ handler_installed = FALSE
    /\ sigints = 0
    /\ pending = "none"
    /\ exit_status = -1
    /\ out_dir = "absent"

Callers == {MainT, SigT}

\* the writer and cleanup code run by the main thread stands still while
\* the handler runs on top of it
Runs(t) == t = MainT => ~HandlerActive

NextMain ==
    \/ main_mkdir
    \/ main_install
    \/ main_writer
    \/ main_orchestrator
    \/ run_build
    \/ run_popen
    \/ run_lock
    \/ run_register
    \/ run_read
    \/ run_eof
    \/ run_wait
    \/ run_submit
    \/ \E f \in Files : run_collect(f)
    \/ run_collected
    \/ run_close
    \/ run_return
    \/ main_except
    \/ main_join_pool
    \/ main_finally
    \/ main_finally_cleanup
    \/ main_finally_close
    \/ main_exit
    \/ sigint
    \/ handler_steps
    \/ \E t \in Callers : Runs(t) /\ cleanup_steps(t)
    \/ \E t \in Pool : process_file_steps(t)
    \/ \E f \in Files : proc_exit(f)
    \/ \E f \in Files : proc_die(f)
    \/ \E t \in Pool \cup Callers : Runs(t) /\ add_steps(t)
    \/ \E t \in Pool \cup Callers : Runs(t) /\ flush_steps(t)
    \/ \E t \in Pool \cup Callers : Runs(t) /\ flush_write_closed(t)
    \/ \E t \in Callers : Runs(t) /\ close_steps(t)
    \/ \E t \in Pool \cup Callers : Runs(t) /\ unlock(t)

SpecMain == InitMain /\ [][NextMain]_vars

\* main() with a SIGINT that may be followed by a second one while the handler
\* of the first is running
InitNested ==
    /\ InitMain
    /\ target # "multi"

NextNested ==
    \/ main_mkdir
    \/ main_install
    \/ main_writer
    \/ main_orchestrator
    \/ run_build
    \/ run_popen
    \/ run_lock
    \/ run_register
    \/ run_read
    \/ run_eof
    \/ run_wait
    \/ run_close
    \/ run_return
    \/ main_except
    \/ main_finally
    \/ main_finally_cleanup
    \/ main_finally_close
    \/ main_exit
    \/ sigint
    \/ sigint_nested
    \/ handler_steps
    \/ \E t \in Callers : Runs(t) /\ cleanup_steps(t)
    \/ \E f \in Files : proc_exit(f)
    \/ \E f \in Files : proc_die(f)
    \/ \E t \in Callers : Runs(t) /\ add_steps(t)
    \/ \E t \in Callers : Runs(t) /\ flush_steps(t)
    \/ \E t \in Callers : Runs(t) /\ close_steps(t)
    \/ \E t \in Callers : Runs(t) /\ unlock(t)

SpecNested == InitNested /\ [][NextNested]_vars

\* ------------------------------------- Orchestrator built and run directly
\* orchestrator = Orchestrator(..., imports=..., read_files=...)
new_orchestrator ==
    /\ MainAt("t_new")
    /\ IF init_valid(imports, read_files)
       THEN /\ orchestrator_created' = TRUE
            /\ pc' = [pc EXCEPT ![MainT] = "m_run"]
            /\ UNCHANGED pending
       ELSE /\ pending' = "error"
            /\ pc' = [pc EXCEPT ![MainT] = "t_error"]
            /\ UNCHANGED orchestrator_created
    /\ UNCHANGED <<storeVars, histVars, clientVars, cfgVars, outVars, procVars, orchVars>>
    /\ UNCHANGED <<ret, record, shard, todo, after, table, exc, op>>
    /\ UNCHANGED <<writer_created, interrupted, handler_installed, sigints, exit_status, out_dir>>

\* No SIGINT: an Orchestrator is constructed with any pair of target
\* arguments over a writer that exists, and run() is called once. Workers
\* may fail to start, exit nonzero, or print records the schema rejects.
InitRun ==
    /\ InitStore
    /\ num_shards = MaxShards
    /\ InitHist
    /\ num_threads = 0
    /\ quota = 0
    /\ ops_done = [t \in AllT |-> 0]
    /\ pc = [t \in AllT |-> IF t = MainT THEN "t_new" ELSE IF t = SigT THEN "idle" ELSE "w_idle"]
    /\ ret = [t \in AllT |-> "idle"]
    /\ record = [t \in AllT |-> NoRecord]
    /\ shard = [t \in AllT |-> 0]
    /\ todo = [t \in AllT |-> <<>>]
    /\ after = [t \in AllT |-> "unlock"]
    /\ table = [t \in AllT |-> <<>>]
    /\ exc = [t \in AllT |-> FALSE]
    /\ op = [t \in AllT |-> "none"]
    /\ imports \in {-1, 0, 1}
    /\ read_files \in -1..MaxFiles
    /\ target = run_target(imports, read_files)
    /\ num_files = IF target \in {"single", "multi"} THEN read_files ELSE 1
    /\ cpu_count = MaxThreads
    /\ parallel \in 1..(MaxThreads + 1)
    /\ num_workers = clamp_parallel(parallel, cpu_count)
    /\ target # "multi" => parallel = 1
    /\ build_ok \in BOOLEAN
    /\ script = [f \in 1..MaxFiles |-> IF f \in Files THEN MaxLines ELSE 0]
    /\ exit_code_of \in [1..MaxFiles -> {0, 1}]
    /\ launch_ok \in [1..MaxFiles -> BOOLEAN]
    /\ bad_record \in [1..MaxFiles -> BOOLEAN]
    /\ \A f \in 1..MaxFiles :
          (f \notin Files \/ ~build_ok \/ ~init_valid(imports, read_files))
              => exit_code_of[f] = 0 /\ launch_ok[f] /\ ~bad_record[f]
    /\ \A f \in 1..MaxFiles : ~launch_ok[f] => exit_code_of[f] = 0 /\ ~bad_record[f]
    /\ ~init_valid(imports, read_files) => build_ok /\ batch_rows = 1
    /\ lines = [f \in 1..MaxFiles |-> [j \in 1..script[f] |-> "rec"]]
    /\ jsonl = FALSE
    /\ numShards = num_shards
    /\ schema = "ok"
    /\ listing = "ok"
    /\ target_arg = IF imports > 0 THEN "imports" ELSE "read"
    /\ stdout = <<>>
    /\ proc = [f \in 1..MaxFiles |-> "none"]
    /\ pipe = [f \in 1..MaxFiles |-> <<>>]
    /\ returncode = [f \in 1..MaxFiles |-> 0]
    /\ signalled = [f \in 1..MaxFiles |-> {}]
    /\ processes = <<>>
    /\ process_lock = NoThread
    /\ shutdown = FALSE
    /\ future = [f \in 1..MaxFiles |-> "none"]
    /\ task = [t \in AllT |-> 0]
    /\ collected = {}
    /\ errors = <<>>
    /\ snap = [t \in AllT |-> <<>>]
    /\ cq = [t \in AllT |-> <<>>]
    /\ cret = [t \in AllT |-> "idle"]
    /\ run_state = "none"
    /\ writer_created = TRUE
    /\ orchestrator_created = FALSE
    /\ interrupted = FALSE
    /\ handler_installed = FALSE
    /\ sigints = 0
    /\ pending = "none"
    /\ exit_status = -1
    /\ out_dir = "present"

RunThreads == Pool \cup {MainT}

NextRun ==
    \/ new_orchestrator
    \/ run_build
    \/ run_popen
    \/ run_popen_fail
    \/ run_lock
    \/ run_register
    \/ run_read
    \/ run_read_raise
    \/ run_eof
    \/ run_wait
    \/ run_submit
    \/ \E f \in Files : run_collect(f)
    \/ run_collected
    \/ run_close
    \/ run_return
    \/ \E t \in Pool : process_file_steps(t)
    \/ \E t \in Pool : process_file_popen_fail(t)
    \/ \E f \in Files : proc_exit(f)
    \/ \E t \in RunThreads : add_steps(t)
    \/ \E t \in RunThreads : flush_steps(t)
    \/ \E t \in RunThreads : flush_open_invalid(t)
    \/ close_steps(MainT)
    \/ \E t \in RunThreads : unlock(t)

SpecRun == InitRun /\ [][NextRun]_vars

\* ------------------------------------------ cleanup() called on its own
\* one more cleanup() call on the orchestrator
cleanup_call ==
    /\ pc[MainT] = "k_idle"
    /\ ~exc[MainT]
    /\ ops_done[MainT] < quota
    /\ ops_done' = [ops_done EXCEPT ![MainT] = @ + 1]
    /\ call_cleanup(MainT, "k_idle")
    /\ UNCHANGED <<storeVars, histVars, cfgVars, outVars, procVars, cliVars>>
    /\ UNCHANGED <<ret, record, shard, todo, after, table, exc, op>>
    /\ UNCHANGED <<num_threads, quota>>
    /\ UNCHANGED <<processes, process_lock, shutdown, future, task, collected, errors, snap, cq, run_state>>

\* the registry as some run left it: no, one or several registered
\* processes, in either order
Registries ==
    {<<>>} \cup {<<f>> : f \in 1..MaxFiles}
           \cup {p \in (1..MaxFiles) \X (1..MaxFiles) : p[1] # p[2]}

\* An Orchestrator whose registry holds processes that are running or have
\* already exited; cleanup() is called MaxOps times while the running ones
\* may exit by themselves at any moment.
InitCleanup ==
    /\ InitStore
    /\ num_shards = MaxShards
    /\ batch_rows = MaxBatch
    /\ InitHist
    /\ num_threads = 0
    /\ quota = MaxOps
    /\ ops_done = [t \in AllT |-> 0]
    /\ pc = [t \in AllT |-> IF t = MainT THEN "k_idle" ELSE IF t = SigT THEN "idle" ELSE "w_idle"]
    /\ ret = [t \in AllT |-> "idle"]
    /\ record = [t \in AllT |-> NoRecord]
    /\ shard = [t \in AllT |-> 0]
    /\ todo = [t \in AllT |-> <<>>]
    /\ after = [t \in AllT |-> "unlock"]
    /\ table = [t \in AllT |-> <<>>]
    /\ exc = [t \in AllT |-> FALSE]
    /\ op = [t \in AllT |-> "none"]
    /\ target = "multi"
    /\ num_files = MaxFiles
    /\ num_workers = MaxThreads
    /\ parallel = MaxThreads
    /\ cpu_count = MaxThreads
    /\ imports = -1
    /\ read_files = MaxFiles
    /\ build_ok = TRUE
    /\ script = [f \in 1..MaxFiles |-> 0]
    /\ exit_code_of \in [1..MaxFiles -> {0, 1}]
    /\ launch_ok = [f \in 1..MaxFiles |-> TRUE]
    /\ bad_record = [f \in 1..MaxFiles |-> FALSE]
    /\ lines = [f \in 1..MaxFiles |-> [j \in 1..script[f] |-> "rec"]]
    /\ jsonl = FALSE
    /\ numShards = num_shards
    /\ schema = "ok"
    /\ listing = "ok"
    /\ target_arg = "read"
    /\ stdout = <<>>
    /\ processes \in Registries
    /\ proc \in [1..MaxFiles -> {"none", "running", "exited"}]
    /\ \A f \in 1..MaxFiles :
          (proc[f] = "none") = (\A i \in 1..Len(processes) : processes[i] # f)
    /\ \A f \in 1..MaxFiles : proc[f] = "none" => exit_code_of[f] = 0
    /\ pipe = [f \in 1..MaxFiles |-> <<>>]
    /\ returncode = [f \in 1..MaxFiles |-> IF proc[f] = "exited" THEN exit_code_of[f] ELSE 0]
    /\ signalled = [f \in 1..MaxFiles |-> {}]
    /\ process_lock = NoThread
    /\ shutdown = FALSE
    /\ future = [f \in 1..MaxFiles |-> "none"]
    /\ task = [t \in AllT |-> 0]
    /\ collected = {}
    /\ errors = <<>>
    /\ snap = [t \in AllT |-> <<>>]
    /\ cq = [t \in AllT |-> <<>>]
    /\ cret = [t \in AllT |-> "idle"]
    /\ run_state = "none"
    /\ writer_created = TRUE
    /\ orchestrator_created = TRUE
    /\ interrupted = FALSE
    /\ handler_installed = FALSE
    /\ sigints = 0
    /\ pending = "none"
    /\ exit_status = -1
    /\ out_dir = "present"

NextCleanup ==
    \/ cleanup_call
    \/ cleanup_steps(MainT)
    \/ \E f \in Files : proc_exit(f)
    \/ \E f \in Files : proc_die(f)

SpecCleanup == InitCleanup /\ [][NextCleanup]_vars

\* --------------------------- one worker whose output holds any kind of line
\* the outputs of at most MaxStream lines
ShapeSeqs == UNION {[1..k -> LineShapes] : k \in 0..MaxStream}

\* run() on a single file whose worker prints any sequence of well-formed,
\* padded, blank and malformed lines and exits with status 0.
InitStream ==
    /\ InitStore
    /\ num_shards = MaxShards
    /\ InitHist
    /\ num_threads = 0
    /\ quota = 0
    /\ ops_done = [t \in AllT |-> 0]
    /\ pc = [t \in AllT |-> IF t = MainT THEN "m_run" ELSE IF t = SigT THEN "idle" ELSE "w_idle"]
    /\ ret = [t \in AllT |-> "idle"]
    /\ record = [t \in AllT |-> NoRecord]
    /\ shard = [t \in AllT |-> 0]
    /\ todo = [t \in AllT |-> <<>>]
    /\ after = [t \in AllT |-> "unlock"]
    /\ table = [t \in AllT |-> <<>>]
    /\ exc = [t \in AllT |-> FALSE]
    /\ op = [t \in AllT |-> "none"]
    /\ target = "single"
    /\ num_files = 1
    /\ num_workers = 1
    /\ parallel = 1
    /\ cpu_count = MaxThreads
    /\ imports = -1
    /\ read_files = 1
    /\ build_ok = TRUE
    /\ lines \in [1..MaxFiles -> ShapeSeqs]
    /\ \A f \in 2..MaxFiles : lines[f] = <<>>
    /\ script = [f \in 1..MaxFiles |-> Len(lines[f])]
    /\ exit_code_of = [f \in 1..MaxFiles |-> 0]
    /\ launch_ok = [f \in 1..MaxFiles |-> TRUE]
    /\ bad_record = [f \in 1..MaxFiles |-> FALSE]
    /\ jsonl = FALSE
    /\ numShards = num_shards
    /\ schema = "ok"
    /\ listing = "ok"
    /\ target_arg = "read"
    /\ stdout = <<>>
    /\ proc = [f \in 1..MaxFiles |-> "none"]
    /\ pipe = [f \in 1..MaxFiles |-> <<>>]
    /\ returncode = [f \in 1..MaxFiles |-> 0]
    /\ signalled = [f \in 1..MaxFiles |-> {}]
    /\ processes = <<>>
    /\ process_lock = NoThread
    /\ shutdown = FALSE
    /\ future = [f \in 1..MaxFiles |-> "none"]
    /\ task = [t \in AllT |-> 0]
    /\ collected = {}
    /\ errors = <<>>
    /\ snap = [t \in AllT |-> <<>>]
    /\ cq = [t \in AllT |-> <<>>]
    /\ cret = [t \in AllT |-> "idle"]
    /\ run_state = "none"
    /\ writer_created = TRUE
    /\ orchestrator_created = TRUE
    /\ interrupted = FALSE
    /\ handler_installed = FALSE
    /\ sigints = 0
    /\ pending = "none"
    /\ exit_status = -1
    /\ out_dir = "present"

NextStream ==
    \/ run_build
    \/ run_popen
    \/ run_lock
    \/ run_register
    \/ run_read
    \/ run_skip
    \/ run_eof
    \/ run_wait
    \/ run_close
    \/ run_return
    \/ proc_exit(1)
    \/ add_steps(MainT)
    \/ flush_steps(MainT)
    \/ close_steps(MainT)
    \/ unlock(MainT)

SpecStream == InitStream /\ [][NextStream]_vars

\* ------------------------------------------ cli.main from the command line
argVars == <<target, num_files, build_ok, script, exit_code_of, imports,
             read_files, launch_ok, bad_record, parallel, cpu_count, lines,
             jsonl, numShards, schema, listing, target_arg>>

default_max_workers == 32

max_num_shards == 999

\* max_workers = os.cpu_count() or 32
cli_max_workers == IF cpu_count = 0 THEN default_max_workers ELSE cpu_count

\* "if args.parallel is None: args.parallel = max_workers"
requested_parallel == IF parallel = -1 THEN cli_max_workers ELSE parallel

\* parser.error(...): usage message, exit status 2
parser_error ==
    /\ exit_status' = 2
    /\ pc' = [pc EXCEPT ![MainT] = "exited"]

\* parser.parse_args(): the target options exclude each other
main_parse_args ==
    /\ MainAt("a_parse")
    /\ IF target_arg = "both"
       THEN parser_error
       ELSE /\ pc' = [pc EXCEPT ![MainT] = "a_parallel"]
            /\ UNCHANGED exit_status
    /\ UNCHANGED <<storeVars, histVars, clientVars, cfgVars, outVars, procVars, orchVars>>
    /\ UNCHANGED <<ret, record, shard, todo, after, table, exc, op>>
    /\ UNCHANGED <<writer_created, orchestrator_created, interrupted, handler_installed, sigints, pending, out_dir>>

\* "Validate --parallel flag"
main_parallel ==
    /\ MainAt("a_parallel")
    /\ IF requested_parallel < 1
       THEN /\ parser_error
            /\ UNCHANGED num_workers
       ELSE /\ num_workers' = clamp_parallel(requested_parallel, cli_max_workers)
            /\ pc' = [pc EXCEPT ![MainT] = "a_shards"]
            /\ UNCHANGED exit_status
    /\ UNCHANGED <<storeVars, histVars, clientVars, argVars, outVars, procVars, orchVars>>
    /\ UNCHANGED <<ret, record, shard, todo, after, table, exc, op>>
    /\ UNCHANGED <<writer_created, orchestrator_created, interrupted, handler_installed, sigints, pending, out_dir>>

\* mutant: any shard count is accepted
num_shards_valid_always(n) == TRUE

\* neither "--numShards must be at least 1" nor "cannot exceed 999"
num_shards_valid(n) == ~(n < 1) /\ ~(n > max_num_shards)

main_num_shards ==
    /\ MainAt("a_shards")
    /\ IF num_shards_valid(numShards)
       THEN /\ pc' = [pc EXCEPT ![MainT] = "a_target"]
            /\ UNCHANGED exit_status
       ELSE parser_error
    /\ UNCHANGED <<storeVars, histVars, clientVars, cfgVars, outVars, procVars, orchVars>>
    /\ UNCHANGED <<ret, record, shard, todo, after, table, exc, op>>
    /\ UNCHANGED <<writer_created, orchestrator_created, interrupted, handler_installed, sigints, pending, out_dir>>

\* "Validate that target is specified for all other commands"
main_target ==
    /\ MainAt("a_target")
    /\ IF target_arg = "none"
       THEN parser_error
       ELSE /\ pc' = [pc EXCEPT ![MainT] = "a_dir"]
            /\ UNCHANGED exit_status
    /\ UNCHANGED <<storeVars, histVars, clientVars, cfgVars, outVars, procVars, orchVars>>
    /\ UNCHANGED <<ret, record, shard, todo, after, table, exc, op>>
    /\ UNCHANGED <<writer_created, orchestrator_created, interrupted, handler_installed, sigints, pending, out_dir>>

\* mutant: an existing output directory is reused
collision_never == FALSE

\* "if output_dir.exists()" in the Parquet mode
collision == exists(out_dir)

\* "if args.jsonl: ... else: ... sys.exit(1)" on a collision; the mkdir
\* follows otherwise
main_output_dir ==
    /\ MainAt("a_dir")
    /\ IF jsonl
       THEN /\ pc' = [pc EXCEPT ![MainT] = "m_install"]
            /\ UNCHANGED exit_status
       ELSE IF collision
       THEN /\ exit_status' = 1
            /\ pc' = [pc EXCEPT ![MainT] = "exited"]
       ELSE /\ pc' = [pc EXCEPT ![MainT] = "m_mkdir"]
            /\ UNCHANGED exit_status
    /\ UNCHANGED <<storeVars, histVars, clientVars, cfgVars, outVars, procVars, orchVars>>
    /\ UNCHANGED <<ret, record, shard, todo, after, table, exc, op>>
    /\ UNCHANGED <<writer_created, orchestrator_created, interrupted, handler_installed, sigints, pending, out_dir>>

\* the part file an earlier run left in the output directory
OldRecord == [id |-> <<0, 1>>, key |-> StrKey("a"), valid |-> TRUE]

OldFiles == DictSet(<<>>, 0, <<<<OldRecord>>>>)

\* 1 when the condition deviates from a plain successful run
Dev(b) == IF b THEN 1 ELSE 0

\* the deviations of a command line and its environment from a plain run
Deviations ==
      Dev(target_arg \in {"none", "both"})
    + Dev(parallel # 1 \/ cpu_count # 1)
    + Dev(numShards # MaxShards)
    + Dev(out_dir = "old" /\ ~jsonl)
    + Dev(schema # "ok")
    + Dev(listing # "ok")
    + Dev(target_arg = "list" /\ read_files = 0)
    + Dev(~build_ok)
    + Dev(\E f \in 1..MaxFiles : exit_code_of[f] # 0)
    + Dev(\E f \in 1..MaxFiles : bad_record[f])

\* main() started on any command line with at most one deviation; the runs
\* on several files use one worker
InitCli ==
    /\ num_shards = 1
    /\ batch_rows \in 1..MaxBatch
    /\ buffers = <<>>
    /\ writers = <<>>
    /\ counts = <<>>
    /\ out_dir \in {"absent", "old"}
    /\ files = IF out_dir = "old" THEN OldFiles ELSE <<>>
    /\ lock = NoThread
    /\ stats = NoStats
    /\ InitHist
    /\ num_threads = 0
    /\ quota = 0
    /\ ops_done = [t \in AllT |-> 0]
    /\ pc = [t \in AllT |-> IF t = MainT THEN "a_parse" ELSE IF t = SigT THEN "idle" ELSE "w_idle"]
    /\ ret = [t \in AllT |-> "idle"]
    /\ record = [t \in AllT |-> NoRecord]
    /\ shard = [t \in AllT |-> 0]
    /\ todo = [t \in AllT |-> <<>>]
    /\ after = [t \in AllT |-> "unlock"]
    /\ table = [t \in AllT |-> <<>>]
    /\ exc = [t \in AllT |-> FALSE]
    /\ op = [t \in AllT |-> "none"]
    /\ target_arg \in {"none", "imports", "read", "list", "both"}
    /\ imports = IF target_arg \in {"imports", "both"} THEN 1 ELSE -1
    /\ read_files \in -1..MaxFiles
    /\ target_arg \in {"none", "imports"} => read_files = -1
    /\ target_arg \in {"read", "both"} => read_files >= 1
    /\ target_arg = "list" => read_files \in {0, 1}
    /\ target = run_target(imports, read_files)
    /\ num_files = IF target \in {"single", "multi"} THEN read_files ELSE 1
    /\ listing \in {"ok", "failed"}
    /\ listing = "failed" => target_arg = "list" /\ read_files = 1
    /\ parallel \in {-1, 0, 1, MaxThreads + 1}
    /\ cpu_count \in {0, 1, MaxThreads}
    /\ target = "multi" => parallel = 1 /\ cpu_count = 1
    /\ num_workers = 0
    /\ numShards \in {0, 1, MaxShards, max_num_shards, max_num_shards + 1}
    /\ jsonl \in BOOLEAN
    /\ schema \in {"ok", "failed", "no_key"}
    /\ build_ok \in BOOLEAN
    /\ script = [f \in 1..MaxFiles |-> IF f \in Files THEN MaxLines ELSE 0]
    /\ lines = [f \in 1..MaxFiles |-> [j \in 1..script[f] |-> "rec"]]
    /\ exit_code_of \in [1..MaxFiles -> {0, 1}]
    /\ bad_record \in [1..MaxFiles -> BOOLEAN]
    /\ launch_ok = [f \in 1..MaxFiles |-> TRUE]
    /\ \A f \in 1..MaxFiles : f \notin Files => exit_code_of[f] = 0 /\ ~bad_record[f]
    /\ Deviations <= 1
    /\ stdout = <<>>
    /\ proc = [f \in 1..MaxFiles |-> "none"]
    /\ pipe = [f \in 1..MaxFiles |-> <<>>]
    /\ returncode = [f \in 1..MaxFiles |-> 0]
    /\ signalled = [f \in 1..MaxFiles |-> {}]
    /\ processes = <<>>
    /\ process_lock = NoThread
    /\ shutdown = FALSE
    /\ future = [f \in 1..MaxFiles |-> "none"]
    /\ task = [t \in AllT |-> 0]
    /\ collected = {}
    /\ errors = <<>>
    /\ snap = [t \in AllT |-> <<>>]
    /\ cq = [t \in AllT |-> <<>>]
    /\ cret = [t \in AllT |-> "idle"]
    /\ run_state = "none"
    /\ writer_created = FALSE
    /\ orchestrator_created = FALSE
    /\ interrupted = FALSE
    /\ handler_installed = FALSE
    /\ sigints = 0
    /\ pending = "none"
    /\ exit_status = -1

NextCli ==
    \/ main_parse_args
    \/ main_parallel
    \/ main_num_shards
    \/ main_target
    \/ main_output_dir
    \/ main_mkdir
    \/ main_install
    \/ main_writer
    \/ main_orchestrator
    \/ run_build
    \/ run_popen
    \/ run_lock
    \/ run_register
    \/ run_read
    \/ run_read_raise
    \/ run_eof
    \/ run_wait
    \/ run_submit
    \/ \E f \in Files : run_collect(f)
    \/ run_collected
    \/ run_close
    \/ run_return
    \/ main_except
    \/ main_join_pool
    \/ main_finally
    \/ main_finally_cleanup
    \/ main_finally_close
    \/ main_exit
    \/ sigint
    \/ handler_steps
    \/ \E t \in Callers : Runs(t) /\ cleanup_steps(t)
    \/ \E t \in Pool : process_file_steps(t)
    \/ \E f \in Files : proc_exit(f)
    \/ \E f \in Files : proc_die(f)
    \/ \E t \in Pool \cup Callers : Runs(t) /\ add_steps(t)
    \/ \E t \in Pool \cup Callers : Runs(t) /\ flush_steps(t)
    \/ \E t \in Pool \cup Callers : Runs(t) /\ flush_open_invalid(t)
    \/ \E t \in Pool \cup Callers : Runs(t) /\ flush_write_closed(t)
    \/ \E t \in Callers : Runs(t) /\ close_steps(t)
    \/ \E t \in Pool \cup Callers : Runs(t) /\ unlock(t)
    \/ \E t \in Pool \cup Callers : Runs(t) /\ jsonl_steps(t)

SpecCli == InitCli /\ [][NextCli]_vars

\* ================================================================ claims
AsFun(d) == [k \in DictKeySet(d) |-> DictGet(d, k)]

RECURSIVE Flatten(_)
Flatten(batches) ==
    IF batches = <<>> THEN <<>> ELSE Head(batches) \o Flatten(Tail(batches))

Batches(s) == IF DictHas(files, s) THEN DictGet(files, s) ELSE <<>>

FileRows(s) == Flatten(Batches(s))

RowsWritten(s) == Len(FileRows(s))

BufLen(s) == IF DictHas(buffers, s) THEN Len(DictGet(buffers, s)) ELSE 0

BufferEmpty(s) == BufLen(s) = 0

Occurrences(id) ==
    SumSeq([s \in 1..MaxShards + 1 |->
        Cardinality({i \in 1..RowsWritten(s - 1) : FileRows(s - 1)[i].id = id})])

AllRowsWritten == SumSeq([s \in 1..MaxShards + 1 |-> RowsWritten(s - 1)])

TotalRouted == SumSeq([s \in 1..MaxShards |-> routed[s - 1]])

TotalAdded == SumSeq([t \in 1..num_threads |-> ops_done[t]])

CloseReturned == \E t \in Clients : pc[t] = "done" /\ ~exc[t]

AllIdle == \A t \in Clients : pc[t] = "idle"

\* C1: N threads each add R records, then one close(): total_rows = N*R,
\* and every record added is in exactly one written row.
C1_NoLostNoDuplicate ==
    CloseReturned =>
        /\ stats.total_rows = TotalAdded
        /\ (\A t \in Clients : ops_done[t] = quota)
              => stats.total_rows = num_threads * quota
        /\ \A t \in Clients : \A i \in 1..ops_done[t] : Occurrences(<<t, i>>) = 1

C1_Witness ==
    /\ CloseReturned
    /\ num_threads >= 2
    /\ \A t \in Clients : ops_done[t] = quota
    /\ Len(files) >= 2

\* C2: the total_rows returned by close() is the sum of the sizes of all
\* batches written by the flushes.
C2_TotalRowsIsSumOfBatches ==
    CloseReturned => stats.total_rows = AllRowsWritten

C2_Witness ==
    /\ CloseReturned
    /\ explicit
    /\ stats.total_rows >= 3
    /\ \E s \in Shards : Len(Batches(s)) >= 2

\* C6: after k add_record calls routed to one shard and no explicit flush,
\* the buffer holds k mod b records, b*floor(k/b) rows are written, and
\* the buffer is shorter than b.
C6_BufferHoldsRemainder ==
    (AllIdle /\ ~explicit /\ close_calls = 0) =>
        \A s \in Shards :
            /\ BufLen(s) = routed[s] % batch_rows
            /\ RowsWritten(s) = batch_rows * (routed[s] \div batch_rows)
            /\ BufLen(s) < batch_rows

C6_Witness ==
    /\ AllIdle /\ ~explicit /\ close_calls = 0
    /\ batch_rows = 2
    /\ \E s \in Shards : routed[s] = 3 /\ BufLen(s) = 1

\* Scenario A: batch_rows = 2 and the k calls made so far are add_record
\* calls with the same shard key K.
SameKeyRecords(rows, K) == \A i \in 1..Len(rows) : rows[i].key = K

ScenarioA(k, K, at) ==
    LET s == compute_shard(K, num_shards)
    IN /\ batch_rows = 2
       /\ pc[1] = at
       /\ ~exc[1]
       /\ ops_done[1] = k
       /\ ~explicit
       /\ routed[s] = k
       /\ SameKeyRecords(FileRows(s), K)
       /\ DictHas(buffers, s) /\ SameKeyRecords(DictGet(buffers, s), K)

ShardOf(K) == compute_shard(K, num_shards)

\* C7 as stated: the 2nd add auto-flushes writing 1 record.
C7_Original ==
    \A K \in KeyValues :
        /\ ScenarioA(2, K, "idle") => RowsWritten(ShardOf(K)) = 1
        /\ ScenarioA(3, K, "idle") => BufLen(ShardOf(K)) = 1
        /\ ScenarioA(3, K, "done") => stats.total_rows = 3

\* C7 amended: the 2nd add auto-flushes one batch of 2 records; the 3rd
\* add leaves 1 record buffered; close() flushes it; total_rows = 3.
C7_ScenarioA ==
    \A K \in KeyValues :
        /\ ScenarioA(2, K, "idle") =>
              /\ Len(Batches(ShardOf(K))) = 1
              /\ RowsWritten(ShardOf(K)) = 2
              /\ BufLen(ShardOf(K)) = 0
        /\ ScenarioA(3, K, "idle") =>
              /\ BufLen(ShardOf(K)) = 1
              /\ RowsWritten(ShardOf(K)) = 2
        /\ ScenarioA(3, K, "done") =>
              /\ stats.total_rows = 3
              /\ Len(Batches(ShardOf(K))) = 2
              /\ Len(Batches(ShardOf(K))[2]) = 1
              /\ BufLen(ShardOf(K)) = 0

C7_Witness == \E K \in KeyValues : ScenarioA(3, K, "done")

\* C8: a flush of a shard whose buffer is empty or was never created
\* returns at once and changes no buffer, sink, row counter or file.
C8_EmptyFlushIsNoop ==
    [][\A t \in Clients :
          (pc[t] = "fl_check" /\ BufferEmpty(Top(t))) =>
              /\ UNCHANGED <<buffers, writers, counts, files>>
              /\ pc'[t] \in {"fl_check", after[t]}]_vars

C8_Witness ==
    /\ pc[1] = "fl_check"
    /\ op[1] = "flush_shard"
    /\ DictHas(buffers, Top(1))
    /\ DictGet(buffers, Top(1)) = <<>>

\* C9: after close() a part file exists for exactly the shards that got a
\* record, num_shards counts them, and an unused store reports 0 and 0.
Received == {s \in Shards : routed[s] > 0}

C9_FilesForShardsWithData ==
    CloseReturned =>
        /\ DictKeySet(files) = Received
        /\ stats.num_shards = Cardinality(Received)
        /\ Received = {} => stats = [total_rows |-> 0, num_shards |-> 0]

C9_Witness ==
    /\ CloseReturned
    /\ Cardinality(Received) = 1
    /\ num_shards >= 2
    /\ stats.num_shards = 1

\* C10: after flush_all() every buffer is empty and the row counters sum
\* to the number of records added; the counters and files that result do
\* not depend on the order in which the shards are flushed.
RECURSIVE flush_in_order(_, _)
flush_in_order(st, order) ==
    IF order = <<>> THEN st
    ELSE flush_in_order(flush_shard_unsafe(st, Head(order)), Tail(order))

Orders(keys) ==
    {p \in [1..Len(keys) -> {keys[i] : i \in 1..Len(keys)}] :
        \A i, j \in 1..Len(keys) : p[i] = p[j] => i = j}

Outcome(st) ==
    [buffers |-> AsFun(st.buffers), counts |-> AsFun(st.counts), files |-> AsFun(st.files)]

C10_FlushAll ==
    /\ (pc[1] = "idle" /\ op[1] = "flush_all" /\ ~exc[1]) =>
          /\ \A s \in Shards : BufLen(s) = 0
          /\ total_rows(Store) = TotalRouted
    /\ lock = NoThread =>
          \A p \in Orders(DictKeys(buffers)) :
              Outcome(flush_in_order(Store, p))
                  = Outcome(flush_in_order(Store, DictKeys(buffers)))

C10_Witness ==
    /\ pc[1] = "idle" /\ op[1] = "flush_all"
    /\ Len(files) >= 2
    /\ total_rows(Store) >= 3

\* C3: close() is called at most once on the writer in every run of main.
C3_CloseOnce == close_calls <= 1

\* C4: every add_record append happens before any close() of the writer
\* has finished.
C4_AddPrecedesClose ==
    \A t \in AllT : pc[t] = "add_append" => stats = NoStats

\* C5: when run() has returned or raised, close() has been called.
C5_RunAlwaysCloses ==
    run_state \in {"returned", "raised"} => close_calls >= 1

\* ---- claims about the shard router
BufferOf(s) == IF DictHas(buffers, s) THEN DictGet(buffers, s) ELSE <<>>

\* the records the store holds for shard s: written rows, then buffered ones
Stored(s) == FileRows(s) \o BufferOf(s)

StoredShards == DictKeySet(buffers) \cup DictKeySet(files)

RowSet(rows) == {rows[i] : i \in 1..Len(rows)}

StoredSet == UNION {RowSet(Stored(s)) : s \in StoredShards}

KeysIn(s) == {r.key : r \in RowSet(Stored(s))}

\* records whose keys are related by R are never in two different shards
SameShardWhen(R(_, _)) ==
    LET ks == [s \in StoredShards |-> KeysIn(s)]
    IN \A s1 \in StoredShards, s2 \in StoredShards :
           s1 # s2 => \A k1 \in ks[s1], k2 \in ks[s2] : ~R(k1, k2)

SameValue(k1, k2) == k1 = k2

\* C11: every shard _compute_shard returns is an integer in [0, n), and two
\* calls with the same key value return the same shard.
C11_ShardInRangeAndStable ==
    /\ \A t \in Clients :
          pc[t] \in {"add_lock", "add_append"} => shard[t] \in 0..(num_shards - 1)
    /\ StoredShards \subseteq 0..(num_shards - 1)
    /\ SameShardWhen(SameValue)

C11_Witness ==
    /\ num_shards = 2
    /\ Len(Stored(1)) >= 2
    /\ Stored(1)[1].key = Stored(1)[2].key
    /\ Len(Stored(0)) >= 1

ItemSet(k) == {k.items[i] : i \in 1..Len(k.items)}

StructurallyEqual(k1, k2) ==
    /\ k1.tag = "map"
    /\ k2.tag = "map"
    /\ ItemSet(k1) = ItemSet(k2)

\* C12: two map key values with the same items, inserted in different
\* orders, are routed to the same shard.
C12_StructurallyEqualSameShard == SameShardWhen(StructurallyEqual)

C12_Witness ==
    /\ num_shards = 2
    /\ \E r1 \in StoredSet, r2 \in StoredSet :
          /\ r1.key # r2.key
          /\ StructurallyEqual(r1.key, r2.key)
    /\ \E r \in StoredSet : r.key.tag = "str"

NullKey(k) == k.tag \in {"none", "absent"}

BothNull(k1, k2) == NullKey(k1) /\ NullKey(k2)

AllValid(rows) == \A i \in 1..Len(rows) : rows[i].valid

\* C14: a flush whose batch holds a record that violates the schema raises,
\* the error reaches the caller of add_record / flush_shard / flush_all /
\* close, the failing flush writes nothing and leaves the row counters as
\* they were, and no record of such a batch is ever a counted row.
C14_SchemaViolationIsFatal ==
    /\ [](\A s \in StoredShards : AllValid(FileRows(s)))
    /\ [](total_rows(Store) = AllRowsWritten)
    /\ [](CloseReturned =>
            /\ stats.total_rows = AllRowsWritten
            /\ \A s \in StoredShards : AllValid(Stored(s)))
    /\ [][\A t \in Clients :
            /\ (pc[t] = "fl_open" /\ pc'[t] # "fl_open" /\ ~AllValid(BufferOf(Top(t))))
                  => /\ exc'[t]
                     /\ pc'[t] = "unlock"
                     /\ buffers' = buffers
                     /\ total_rows(Store)' = total_rows(Store)
                     /\ \A s \in StoredShards : FileRows(s)' = FileRows(s)
            /\ (pc[t] = "unlock" /\ pc'[t] # "unlock" /\ exc[t])
                  => /\ exc'[t]
                     /\ pc'[t] = ret[t]
                     /\ pc'[t] \in {"idle", "done"}]_vars

C14_Witness ==
    /\ pc[1] = "done"
    /\ exc[1]
    /\ op[1] = "close"
    /\ \E s \in StoredShards :
          /\ Len(BufferOf(s)) >= 2
          /\ ~AllValid(BufferOf(s))
          /\ RowsWritten(s) >= 1

\* ---- claims about Orchestrator.__init__ and run()
Given(n) == n > 0

ExactlyOneTarget == Given(imports) # Given(read_files)

\* C15: an Orchestrator given both an import list and a file list, or
\* neither, is not constructed (ValueError) and no worker is ever spawned
\* for it; given exactly one of the two it is constructed.
C15_ConstructorValidates ==
    /\ pc[MainT] # "t_new" =>
          /\ orchestrator_created = ExactlyOneTarget
          /\ (pc[MainT] = "t_error") = ~ExactlyOneTarget
    /\ ~ExactlyOneTarget =>
          /\ \A f \in 1..MaxFiles : proc[f] = "none"
          /\ processes = <<>>
          /\ run_state = "none"

C15_Witness ==
    /\ pc[MainT] = "t_error"
    /\ Given(imports)
    /\ Given(read_files)

RunPastSpawn == pc[MainT] \in {"r_reg_lock", "r_reg", "r_read", "r_wait", "r_close", "r_return"}

\* C16: for an imports target or one file, run() spawns one worker only,
\* waits for its exit only when every record it printed has been appended
\* to the store, and returns only if the exit code is 0.
C16_SingleWorkerStreamThenWait ==
    target \in {"imports", "single"} =>
        /\ \A f \in 1..MaxFiles : f # 1 => proc[f] = "none"
        /\ Len(processes) <= 1
        /\ RunPastSpawn => proc[1] # "none" /\ processes \in {<<>>, <<1>>}
        /\ pc[MainT] = "r_wait" =>
              /\ pipe[1] = <<>>
              /\ TotalRouted = script[1]
              /\ Cardinality(StoredSet) = script[1]
        /\ (pc[MainT] \in {"r_close", "r_return"} \/ run_state = "returned") =>
              /\ proc[1] = "exited"
              /\ returncode[1] = 0
              /\ TotalRouted = script[1]

C16_Witness ==
    /\ target = "single"
    /\ run_state = "raised"
    /\ proc[1] = "exited"
    /\ returncode[1] = 1
    /\ TotalRouted = MaxLines
    /\ close_calls = 0

Failed == {f \in Files : future[f] = "failed"}

\* C17: in a multi-file run every unit is started and finishes whatever
\* happens to its siblings: the run raises only when all N futures are
\* done, a worker is spawned for every file whose worker can be launched,
\* and (when all records fit the schema) a unit fails only if its own
\* worker could not be launched or exited nonzero.
C17_SiblingsNotAborted ==
    (target = "multi" /\ build_ok /\ run_state \in {"raised", "returned"}) =>
        \A f \in Files :
            /\ future[f] \in {"ok", "failed"}
            /\ f \in collected
            /\ (proc[f] # "none") = launch_ok[f]
            /\ (\A g \in Files : ~bad_record[g]) =>
                  ((future[f] = "ok") = (launch_ok[f] /\ exit_code_of[f] = 0))

C17_Witness ==
    /\ target = "multi"
    /\ run_state = "raised"
    /\ \E f \in Files, g \in Files :
          /\ ~launch_ok[f]
          /\ future[g] = "ok"
          /\ \E r \in StoredSet : r.id[1] = g

ErrorFiles == {errors[i] : i \in 1..Len(errors)}

AggregateRaised == run_state = "raised" /\ errors # <<>>

AfterLoop == pc[MainT] \in {"r_close", "r_return", "cl_lock", "cl_close", "cl_stats"}

\* C18: a multi-file run raises the aggregate error exactly when a unit
\* failed; the error lists each failed file once and no other file; with
\* no failed unit run() goes on to close().
C18_AggregateNamesFailedFiles ==
    (target = "multi" /\ build_ok) =>
        /\ AggregateRaised =>
              /\ ErrorFiles = Failed
              /\ Len(errors) = Cardinality(Failed)
              /\ pending = "error"
        /\ (collected = Files /\ Failed # {}) =>
              (pc[MainT] = "p_collect" \/ AggregateRaised)
        /\ (AfterLoop \/ run_state = "returned") =>
              /\ errors = <<>>
              /\ \A f \in Files : future[f] = "ok"
        /\ (run_state = "raised" /\ errors = <<>>) => Failed = {}

C18_Witness ==
    /\ target = "multi"
    /\ AggregateRaised
    /\ \E f \in Files, g \in Files :
          /\ future[f] = "failed"
          /\ exit_code_of[f] = 1
          /\ future[g] = "ok"
          /\ ErrorFiles = {f}

\* C19: after a multi-file run that ended with the aggregate error, every
\* record of every successful file is in the on-disk output.
C19_SuccessfulRecordsKept ==
    (pc[MainT] = "exited" /\ target = "multi" /\ sigints = 0 /\ errors # <<>>) =>
        \A f \in Files :
            future[f] = "ok" =>
                /\ out_dir = "present"
                /\ \A j \in 1..script[f] : Occurrences(<<f, j>>) = 1

Running == {f \in Files : proc[f] = "running"}

\* C20: in a multi-file run the number of running worker processes never
\* exceeds min(P, N, CPU count).
C20_WorkersBounded ==
    target = "multi" =>
        Cardinality(Running) <= min(min(parallel, num_files), cpu_count)

\* ---- claims about cancellation
\* C21: once cleanup() has set the shutdown flag, no worker process is
\* spawned: every spawn happens while the flag is still unset.
C21_NoSpawnAfterShutdown ==
    [][\A f \in 1..MaxFiles :
          (proc[f] = "none" /\ proc'[f] = "running") => ~shutdown]_vars

\* C22: a SIGINT handled at any point of a run never leaves the handler
\* waiting for a lock that the main thread it interrupted is holding: neither
\* the writer lock in writer.close() nor the registry lock in cleanup().
C22_HandlerNeverStuck ==
    /\ ~(pc[SigT] = "cl_lock" /\ lock = MainT)
    /\ ~(pc[SigT] = "c_snap" /\ process_lock = MainT)

\* ---- claims about cleanup()
InCleanup(t) == pc[t] \in {"c_flag", "c_snap", "c_term", "c_killpg", "c_wait", "c_kill", "c_kill_wait"}

Registered == {processes[i] : i \in 1..Len(processes)}

NoFault == build_ok /\ \A f \in 1..MaxFiles : exit_code_of[f] = 0

\* C24: a run that received a SIGINT, and in which nothing else went wrong,
\* exits with status 130 and with every buffered record flushed.
C24_CancelFlushesExit130 ==
    (exit_status # -1 /\ sigints > 0 /\ NoFault) =>
        /\ exit_status = 130
        /\ \A s \in 0..(MaxShards - 1) : BufferEmpty(s)

\* ---- claims about stream_json_lines
WellFormed(shape) == shape \in {"rec", "padded"}

\* the records of the well-formed lines of worker f from line j on, in order
RECURSIVE ExpectedFrom(_, _)
ExpectedFrom(f, j) ==
    IF j > Len(lines[f]) THEN <<>>
    ELSE (IF WellFormed(lines[f][j]) THEN <<worker_record(f, j)>> ELSE <<>>)
             \o ExpectedFrom(f, j + 1)

ExpectedIn(f, s) ==
    SelectSeq(ExpectedFrom(f, 1), LAMBDA r : compute_shard(r.key, num_shards) = s)

\* C30: no line of a worker's output makes the reading loop raise, and when
\* run() has returned each shard file holds exactly the records of the
\* non-blank well-formed lines routed to it, in the order of the lines.
C30_StreamYieldsWellFormed ==
    /\ ~exc[MainT]
    /\ run_state # "raised"
    /\ run_state = "returned" =>
          \A s \in Shards : FileRows(s) = ExpectedIn(1, s)

C30_Witness ==
    /\ run_state = "returned"
    /\ lines[1] = <<"blank", "malformed", "padded">>
    /\ AllRowsWritten = 1

\* ---- claims about the command line
\* the command line passes the argument checks
ArgsValid ==
    /\ target_arg \notin {"none", "both"}
    /\ ~(parallel # -1 /\ parallel < 1)
    /\ numShards \in 1..999

NoProcess == \A f \in 1..MaxFiles : proc[f] = "none"

\* the fatal errors of a run: the build, the schema query, a worker's exit
\* status, a record that does not fit the schema
FatalCause ==
    \/ ~build_ok
    \/ schema # "ok"
    \/ \E f \in Files : exit_code_of[f] # 0 \/ bad_record[f]

\* a sharded-mode run that got past the argument and collision checks
ShardedRun == ~jsonl /\ ArgsValid /\ out_dir # "old"

ErrorRemovesDirectory ==
    (ShardedRun /\ FatalCause /\ sigints = 0 /\ pc[MainT] = "exited")
        => (exit_status = 1 /\ out_dir = "removed" /\ files = <<>>)

\* C25 as stated: a fatal error without cancellation removes the output
\* directory and exits with status 1, leaving no part file; a run that was
\* cancelled has not removed its output directory when the process exits.
C25_Original ==
    /\ ErrorRemovesDirectory
    /\ (ShardedRun /\ sigints > 0 /\ pc[MainT] = "exited") => out_dir # "removed"

\* C25 amended: a fatal error in a run that receives no SIGINT removes the
\* output directory and exits with status 1, leaving no part file; a
\* cancelled run in which no fatal error occurs never removes the directory.
C25_ErrorRemovesCancelKeeps ==
    /\ ErrorRemovesDirectory
    /\ (ShardedRun /\ sigints > 0 /\ ~FatalCause /\ listing = "ok"
           /\ init_valid(imports, read_files)) => out_dir # "removed"

C25_Witness ==
    /\ ShardedRun
    /\ target = "multi"
    /\ errors # <<>>
    /\ counts # <<>>
    /\ sigints = 0
    /\ exit_status = 1
    /\ out_dir = "removed"

\* a run that ends with a structural error: a schema document without the
\* 'key' field, or a target the Orchestrator constructor rejects
ConfigErrorRun ==
    /\ ArgsValid
    /\ listing = "ok"
    /\ sigints = 0
    /\ \/ ~jsonl /\ schema = "no_key"
       \/ (jsonl \/ schema = "ok") /\ ~init_valid(imports, read_files)

\* C26: in a run that ends with a structural or configuration error the
\* output directory has not existed at any moment: it was neither created
\* nor, having been created, removed.
C26_ConfigErrorBeforeMkdir ==
    (ConfigErrorRun /\ pc[MainT] = "exited") => out_dir \in {"absent", "old"}

\* C27: when the output directory exists at the start of a sharded-mode run,
\* no step creates a Store or an Orchestrator, spawns a worker or changes the
\* directory and its files, and the process exits with status 1.
C27_CollisionIsFatal ==
    /\ []((~jsonl /\ out_dir = "old" /\ ArgsValid /\ pc[MainT] = "exited")
             => exit_status = 1)
    /\ [][(~jsonl /\ out_dir = "old")
             => /\ out_dir' = "old"
                /\ files' = files
                /\ ~writer_created' /\ ~orchestrator_created'
                /\ buffers' = <<>> /\ writers' = <<>>
                /\ \A f \in 1..MaxFiles : proc'[f] = "none"]_vars

C27_Witness ==
    /\ ~jsonl
    /\ out_dir = "old"
    /\ files = OldFiles
    /\ pc[MainT] = "exited"
    /\ exit_status = 1

\* C28: in the JSON Lines mode no step creates or removes the output
\* directory or changes its files, and no sharded store is built or used.
C28_JsonlNoOutputDirectory ==
    /\ [](jsonl => /\ out_dir \in {"absent", "old"}
                   /\ buffers = <<>> /\ writers = <<>> /\ counts = <<>>)
    /\ [][jsonl => (out_dir' = out_dir /\ files' = files)]_vars

C28_Witness ==
    /\ jsonl
    /\ out_dir = "old"
    /\ stdout # <<>>
    /\ sigints = 0
    /\ pc[MainT] = "exited"
    /\ exit_status = 1

CpuLimit == IF cpu_count = 0 THEN 32 ELSE cpu_count

\* C29: a shard count outside [1, 999] or a parallelism below 1 ends the
\* process with a usage error before a directory is created, a writer or an
\* Orchestrator is built or a worker is spawned; every Orchestrator built has
\* 1 <= num_workers <= CPU count and every store 1 <= num_shards <= 999.
C29_BoundsEnforced ==
    /\ (numShards \notin 1..999 \/ (parallel # -1 /\ parallel < 1))
          => /\ out_dir \in {"absent", "old"}
             /\ ~writer_created /\ ~orchestrator_created
             /\ NoProcess
             /\ exit_status \in {-1, 2}
    /\ orchestrator_created => (1 <= num_workers /\ num_workers <= CpuLimit)
    /\ (writer_created /\ ~jsonl) => (1 <= num_shards /\ num_shards <= 999)

C29_Witness ==
    /\ orchestrator_created
    /\ parallel = MaxThreads + 1
    /\ cpu_count = 1
    /\ num_workers = 1
    /\ run_state = "returned"

\* ---- claims about the writer's critical section
InSection(t) ==
    pc[t] \in {"add_append", "fl_check", "fl_open", "fl_write", "cl_close", "cl_stats", "unlock"}

BufferOccurrences(id) ==
    SumSeq([s \in 1..MaxShards |->
        Cardinality({i \in 1..BufLen(s - 1) : DictGet(buffers, s - 1)[i].id = id})])

\* the i-th record of thread t has been appended to a buffer
Appended(t, i) ==
    /\ i <= ops_done[t]
    /\ ~(i = ops_done[t] /\ pc[t] \in {"add_lock", "add_append"})

\* C31: the append and the flush it triggers are one critical section: two
\* threads are never inside it together, the buffer whose batch is being
\* written is exactly that batch (nothing is appended meanwhile), and every
\* appended record is in its buffer or in exactly one written batch.
C31_AppendAndFlushAtomic ==
    /\ \A t, u \in Clients : (t # u /\ InSection(t)) => ~InSection(u)
    /\ \A t \in Clients : pc[t] = "fl_write" => DictGet(buffers, Top(t)) = table[t]
    /\ \A t \in Clients : \A i \in 1..MaxOps :
          Appended(t, i) => BufferOccurrences(<<t, i>>) + Occurrences(<<t, i>>) = 1

C31_Witness ==
    /\ batch_rows = 2
    /\ pc[1] = "fl_write"
    /\ pc[2] = "add_lock"
    /\ shard[2] = Top(1)
    /\ Len(table[1]) = 2
    /\ table[1][1].id[1] # table[1][2].id[1]

\* ---- claims about cancellation and the workers
\* C32: when the cleanup() called by the SIGINT handler returns, every worker
\* process that is alive has been sent a termination signal.
C32_RunningWorkersSignalled ==
    pc[SigT] = "h_close" =>
        \A f \in 1..MaxFiles : proc[f] = "running" => signalled[f] # {}

\* ---- claims about the escalation in cleanup()
SnapshotOf(t) == {snap[t][i] : i \in 1..Len(snap[t])}

\* C33: once cleanup() waits, every process of its snapshot that is alive has
\* been sent SIGTERM; SIGKILL goes only to the process whose wait timed out,
\* which is alive and was sent SIGTERM before; and cleanup() returns only
\* when every process of its snapshot has exited.
C33_EscalationInOrder ==
    /\ [](pc[MainT] \in {"c_wait", "c_kill", "c_kill_wait"} =>
             \A f \in SnapshotOf(MainT) :
                 proc[f] = "running" => "TERM" \in signalled[f])
    /\ [][\A f \in 1..MaxFiles :
             ("KILL" \in signalled'[f] /\ "KILL" \notin signalled[f]) =>
                 /\ pc[MainT] = "c_kill"
                 /\ Head(cq[MainT]) = f
                 /\ proc[f] = "running"
                 /\ "TERM" \in signalled[f]]_vars
    /\ [][(InCleanup(MainT) /\ ~InCleanup(MainT)') =>
             \A f \in SnapshotOf(MainT) : proc'[f] = "exited"]_vars

\* cleanup() has returned after one process left on SIGTERM and the other
\* had to be killed
C33_Witness ==
    /\ pc[MainT] = "k_idle"
    /\ ops_done[MainT] = 1
    /\ \E f, g \in 1..MaxFiles :
          /\ signalled[f] = {"TERM"} /\ proc[f] = "exited"
          /\ signalled[g] = {"TERM", "KILL"} /\ proc[g] = "exited"

\* ---- claims about the live-process registry
\* C34: once run() has returned or raised, the live-process registry is empty.
C34_RegistryEmptyAfterRun ==
    run_state \in {"returned", "raised"} => processes = <<>>

\* ---- claims about close()
InClose(t) == op[t] = "close" /\ pc[t] \notin {"idle", "done"}

SomeSinkClosed(w) == \E i \in 1..Len(w) : w[i][2] = "closed"

\* C35: while close() runs, no step writes to a sink once a sink has been
\* closed; and when close() has returned without error every buffer is empty
\* and every sink that was opened is closed.
C35_CloseFlushesThenCloses ==
    /\ [][((\E t \in Clients : InClose(t)) /\ files' # files)
             => (~SomeSinkClosed(writers) /\ ~SomeSinkClosed(writers'))]_vars
    /\ [](CloseReturned =>
             /\ \A s \in Shards : BufferEmpty(s)
             /\ \A i \in 1..Len(writers) : writers[i][2] = "closed")

\* close() alone flushed the remainders of two shards and closed both sinks
C35_Witness ==
    /\ CloseReturned
    /\ ~explicit
    /\ batch_rows = 2
    /\ Len(writers) = 2
    /\ \A s \in Shards : routed[s] = 1 /\ RowsWritten(s) = 1

\* ---- claims about the sinks
IsPrefix(a, b) == Len(a) <= Len(b) /\ SubSeq(b, 1, Len(a)) = a

Opening(s) == \E t \in Clients : pc[t] = "fl_open" /\ Top(t) = s

\* C36: a shard's sink and file are created only by a flush of that shard's
\* non-empty buffer; once created, the sink is never created again or replaced
\* (it only goes from open to closed) and the file only grows by appended
\* batches.
C36_SinkCreatedOnce ==
    [][\A s \in 0..(MaxShards - 1) :
          /\ (~DictHas(writers, s) /\ DictHas(writers', s)) =>
                /\ Opening(s)
                /\ BufLen(s) > 0
                /\ ~DictHas(files, s)
                /\ DictGet(writers', s) = "open"
          /\ DictHas(writers, s) =>
                /\ DictHas(writers', s)
                /\ DictGet(writers, s) = "closed" => DictGet(writers', s) = "closed"
          /\ DictHas(files, s) =>
                /\ DictHas(files', s)
                /\ DictHas(writers, s)
                /\ IsPrefix(DictGet(files, s), DictGet(files', s))]_vars

\* one sink took a batch from an explicit flush and one from close(), and
\* was closed
C36_Witness ==
    /\ CloseReturned
    /\ explicit
    /\ \E s \in Shards :
          /\ Len(Batches(s)) = 2
          /\ DictGet(writers, s) = "closed"

\* ---- claims about the workers of a multi-file run
RunOver == run_state \in {"returned", "raised"}

Launched(f) == proc[f] # "none"

\* the statement as written: after a multi-file run every file has had its
\* worker
C37_Original ==
    (target = "multi" /\ build_ok /\ RunOver) => \A f \in Files : Launched(f)

\* C37: in a multi-file run without cancellation each file is given to one
\* pool thread once: its unit is started once and its outcome is final, a
\* worker is spawned only by the thread holding the file and only when the
\* file has had none, and after a successful build the run ends with every
\* file's unit finished, with a worker for exactly the files whose launch
\* succeeded.
C37_OneLaunchPerFile ==
    /\ [](\A t, u \in PoolT : (t # u /\ task[t] # 0) => task[t] # task[u])
    /\ [][target = "multi" => \A f \in 1..MaxFiles :
             /\ (proc[f] # "running" /\ proc'[f] = "running") =>
                   /\ proc[f] = "none"
                   /\ future[f] = "running"
                   /\ \E t \in PoolT : task[t] = f /\ pc[t] = "w_spawn"
             /\ future[f] \in {"ok", "failed"} => future'[f] = future[f]
             /\ future[f] = "running" => future'[f] # "pending"]_vars
    /\ []((target = "multi" /\ build_ok /\ RunOver) =>
             \A f \in Files :
                /\ future[f] \in {"ok", "failed"}
                /\ Launched(f) <=> launch_ok[f])

\* a run over two files ended: one worker failed, the other could not be
\* launched, and neither file was tried again
C37_Witness ==
    /\ target = "multi"
    /\ RunOver
    /\ num_files = 2
    /\ \E f, g \in Files :
          /\ proc[f] = "exited" /\ returncode[f] # 0 /\ future[f] = "failed"
          /\ ~launch_ok[g] /\ proc[g] = "none" /\ future[g] = "failed"

\* ---- claims about the order of the rows
\* the records of shard s in the order the store holds them: the rows of its
\* file, then its buffer
ShardLog(s) ==
    FileRows(s) \o (IF DictHas(buffers, s) THEN DictGet(buffers, s) ELSE <<>>)

\* C38: for each shard, the rows of its file followed by its buffer form a
\* sequence that changes only when add_record appends its record at the end:
\* a flush moves the buffer to the file without reordering; every
\* batch written to a shard's file holds only records routed to that shard.
C38_RowsInAppendOrder ==
    /\ [][\A s \in 0..(MaxShards - 1) :
             \/ ShardLog(s)' = ShardLog(s)
             \/ \E t \in Clients :
                   /\ pc[t] = "add_append"
                   /\ shard[t] = s
                   /\ ShardLog(s)' = Append(ShardLog(s), record[t])]_vars
    /\ [](\A s \in Shards : \A i \in 1..Len(ShardLog(s)) :
             compute_shard(record_get(ShardLog(s)[i]), num_shards) = s)

\* one shard's file holds two batches, three rows in all, while the other
\* shard has rows of its own
C38_Witness ==
    /\ CloseReturned
    /\ \E s, u \in Shards :
          /\ s # u
          /\ Len(Batches(s)) = 2
          /\ RowsWritten(s) = 3
          /\ RowsWritten(u) = 1

\* ---- claims about conservation
Quiescent == \A t \in Clients : pc[t] \in {"idle", "done"}

CountOf(c, s) == IF DictHas(c, s) THEN DictGet(c, s) ELSE 0

LenOf(b, s) == IF DictHas(b, s) THEN Len(DictGet(b, s)) ELSE 0

\* C39: whenever no writer operation is in progress, for every shard the
\* number of records add_record routed to it equals its row counter (0
\* without a sink) plus the length of its buffer; and a step that writes a
\* batch adds the buffer's length to that shard's counter, empties that
\* buffer, and leaves every other shard's buffer and counter as they were.
C39_Conservation ==
    /\ [](Quiescent => \A s \in 0..(MaxShards - 1) :
             routed[s] = CountOf(counts, s) + LenOf(buffers, s))
    /\ [][\A t \in Clients : (pc[t] = "fl_write" /\ files' # files) =>
             /\ CountOf(counts', Top(t)) = CountOf(counts, Top(t)) + LenOf(buffers, Top(t))
             /\ LenOf(buffers, Top(t)) > 0
             /\ LenOf(buffers', Top(t)) = 0
             /\ \A s \in 0..(MaxShards - 1) : s # Top(t) =>
                   /\ CountOf(counts', s) = CountOf(counts, s)
                   /\ LenOf(buffers', s) = LenOf(buffers, s)
                   /\ DictHas(buffers, s) =>
                         DictGet(buffers', s) = DictGet(buffers, s)]_vars

\* between two calls: one shard has rows written and a record buffered, the
\* other has a buffered record and no sink
C39_Witness ==
    /\ Quiescent
    /\ ~CloseReturned
    /\ close_calls = 0
    /\ \E s, u \in Shards :
          /\ CountOf(counts, s) = 2 /\ BufLen(s) = 1
          /\ ~DictHas(writers, u) /\ BufLen(u) = 1

\* ---- claims about a second SIGINT
SecondSigint == sigints > MaxSigints

InCloseCall(t) ==
    /\ op[t] = "close"
    /\ pc[t] \in {"cl_lock", "fl_check", "fl_open", "fl_write", "cl_close", "cl_stats", "unlock"}

\* the interrupted handler had called cleanup() / close(): what the call set
\* stays behind when the handler is unwound
HandlerRanCleanup == cret[SigT] = "h_close"

HandlerRanClose == op[SigT] = "close"

\* C40: once a second SIGINT has arrived during the handler of the first,
\* cleanup() is not run again if the handler had called it, close() is not
\* run again if the handler had called it, and the process exits with
\* status 130.
C40_SecondSigintExitsAtOnce ==
    SecondSigint =>
        /\ HandlerRanCleanup => ~InCleanup(MainT)
        /\ HandlerRanClose => ~InCloseCall(MainT)
        /\ pc[MainT] = "exited" => exit_status = 130
====
